---- MODULE Spec2Model ----
(***************************************************************************)
(* A model of the proxy-wasm sidecar of fastedge-debugger                  *)
(* (src/rust_host/proxywasm): one Unix-socket connection from the          *)
(* handshake through the three serve loops (v1, v2, v2a), the request      *)
(* handler tasks they spawn (handle_request / ProxyWasmExecutor::execute)  *)
(* and the request/reply correlator (ProxyWasmHost::request_reply).        *)
(*                                                                         *)
(* The proxy on the other end of the socket is the environment: the frame  *)
(* a read of the stream yields is any frame the proxy can have sent by     *)
(* then: the Handshake, a request, a Response (in answer to a call it has  *)
(* seen, or unsolicited), a broken frame, or the end of the stream.        *)
(***************************************************************************)
EXTENDS Integers, Sequences, FiniteSets, TLC

(***************************************************************************)
(* Bounds of the model                                                     *)
(***************************************************************************)
\* requests the proxy sends on the connection
MaxRequests == 2
\* host calls a module makes while handling one request
MaxCalls == 2
\* length of the version list the proxy offers in its Handshake
MaxOffered == 2
\* Responses the proxy sends that answer no call it has seen
MaxUnsolicited == 1
\* messages the outbound channel holds (1024 for v1/v2a, 32 for v2 in the code)
ChannelCapacity == 2
\* host calls a module makes while requests are handled concurrently (each request
\* still makes handle_request's and execute's own two calls)
LeanCalls == 0
\* milliseconds the clock advances in one step
TickMs == 100
\* the rows new_stats_row may make in a run
MaxRows == 4
\* the step of the stats cache's idle clock, in milliseconds
StatsTickMs == 500
\* the chunks counted on one stats row
MaxChunks == 3
\* the handler tasks that call get_stats_row side by side
MaxStatsTasks == 2
\* the host calls a module makes in one request of the host's specification
MaxHostCalls == 3
\* the requests of the host's specification
MaxHostRequests == 2
\* the connections of the accept loop's specification
MaxConnections == 2
\* config.backoff: the count of doublings the configuration allows
ConfigBackoff == 4
\* the bytes of a module's linear memory
MemSize == 16
\* the members of a list a key-value host function serializes
MaxList == 3
\* the bytes of a short member of such a list
MaxElem == 2
\* the bytes of the long member: its size takes two bytes of the size field
LongLen == 300
\* the most the accept loop's backoff is let grow to while the cancel handle is gone
MaxBackoff == 8

(***************************************************************************)
(* Program constants                                                       *)
(***************************************************************************)
SUPPORTED_VERSIONS == {1, 2, 42}
REPLY_TIMEOUT_MS == 200
\* the stats cache's time_to_idle, in milliseconds
STATS_IDLE_MS == 1000

\* fastedge_proxywasm::action: the crate is no part of these sources; the values
\* below stand for its constants, and all the model needs of them is that they differ
CONTINUE == 0
NOT_FOUND == 404
NOT_ACCEPTABLE == 406
TOO_MANY_REQUESTS == 429
INTERNAL_ERROR == 530
OUT_OF_MEMORY == 531
EXECUTION_TIMEOUT == 532
EXECUTION_PANIC == 533

(***************************************************************************)
(* Values                                                                  *)
(*                                                                         *)
(* The model is explored in two profiles, fixed by env.detail in the       *)
(* initial state: one request at a time over the full alphabet of inputs,  *)
(* and MaxRequests concurrent requests over a part of it (the Lean sets).  *)
(***************************************************************************)
\* versions a proxy may offer: the three supported ones and one that is not
OfferableVersions == SUPPORTED_VERSIONS \cup {3}
\* byte strings a proxy answers with
EmptyBytes == << >>
Payloads == {EmptyBytes, <<7>>}
\* ProxyStatus values a proxy answers with
Statuses == {"Ok", "NotFound"}
\* what the application registry holds for the id of a request
AppKinds == {"Unknown", "Draft", "Disabled", "RateLimited", "Enabled", "EnabledNoExecutor"}
Handlers == {"OnRequestHeaders", "OnResponseHeaders", "OnRequestBody", "OnResponseBody", "OnLog"}
\* values a module's handler export returns: CONTINUE, another (PAUSE) and a negative
\* one
HandlerReturns == {CONTINUE, 1, 0 - 129}
\* status codes a module passes to proxy_send_local_response
LocalStatuses == {403, 500}
\* how an execution fails
Causes == {"Exit0", "ExitNonZero", "TrapInterrupt", "TrapUnreachable", "TrapOther", "Elapsed", "Other"}

LeanPayloads == {<<7>>}
LeanStatuses == {"Ok"}
LeanAppKinds == {"Unknown", "Enabled"}
LeanHandlers == {"OnRequestHeaders"}
LeanReturns == {1}
LeanLocalStatuses == {403}
LeanCauses == {"TrapOther"}

RequestIds == 1..MaxRequests
\* the request ids the traceparent header gives
Traceparents == {"00-aa-01", "00-bb-01"}

Range(s) == {s[i] : i \in DOMAIN s}

SeqsUpTo(S, n) == UNION {[1..k -> S] : k \in 0..n}

\* the orders in which iterating a HashSet can yield the elements of S
Orderings(S) == {s \in [1..Cardinality(S) -> S] : Range(s) = S}

Min(a, b) == IF a < b THEN a ELSE b

\* header names and values, the map types a Proxy passes on, property values
HeaderNames == {"X-Forwarded-Proto", "X-CDN-Real-Host"}
HeaderValues == {<<"a">>, <<"b">>}
MapTypes == {"HttpRequestHeaders", "HttpResponseHeaders"}
REQUEST_X_REAL_IP == "request.x_real_ip"
REQUEST_COUNTRY == "request.country"
REQUEST_URI == "request.uri"
REQUEST_SCHEME == "request.scheme"
REQUEST_HOST == "request.host"
REQUEST_PATH == "request.path"
PropertyPaths ==
  {REQUEST_X_REAL_IP, REQUEST_COUNTRY, REQUEST_URI, REQUEST_SCHEME, REQUEST_HOST, REQUEST_PATH}
\* the header lists of an AdditionalInfo and of a SetMapPairs
HeaderLists == SeqsUpTo(HeaderNames \X HeaderValues, 2)

VARIABLES
  conn,            \* "handshake" | "serving" | "closed": the connection task (serve)
  version,         \* "none" | "V1" | "V2" | "V2a": the negotiated version
  sup,             \* serve_v2's position: [pc, rid, call]
  chan,            \* the outbound mpsc channel (tx, rx): a queue of ProxyCommand
  nachan,          \* serve_v2a's (next_action_tx, next_action_rx): a queue of (rid, action)
  reply_handlers,  \* RequestId -> the call whose oneshot sender is registered (0: none)
  task,            \* RequestId -> the handler task spawned for that request
  wire,            \* RequestId -> what has crossed the stream for that request
  env              \* the proxy: next and unsol count the requests and the unsolicited
                   \* Responses it has sent; offered and reply are the two Handshake
                   \* frames until the proxy has read the sidecar's

VARIABLES
  stats_cache,     \* ProxyWasmService::stats_cache: request id -> [row, idle], the row
                   \* cached under it (0: none) and the time since its last use
  stats_rows,      \* the rows new_stats_row has made: they are numbered 1, 2, ..
  stats_last,      \* request id -> the last body chunk get_stats_row saw under it:
                   \* [row, eos, since, n] (row 0: none yet; n: the chunks that got row)
  stats_calls,     \* handler task -> its call of get_stats_row: [pc, handler, eos, id,
                   \* row], where the call is and the row it has in hand (0: none yet)
  host,            \* one request's ProxyWasmHost and Proxy, see NoHost
  host_last,       \* the last host call of the module and its result: [msg, res]
  listener,        \* run's loop: [backoff, delay, cancel], the backoff count, the sleep
                   \* before the accept now pending, and that config.cancel upgrades
  conns            \* connection -> [st, version, table, inflight]: where its serve task
                   \* is, its version, the ids in its reply_handlers, its requests

VARIABLES
  wasm,            \* the last host function the module called through the linker:
                   \* [fn, args, res], its arguments and what it returned and wrote
  exec,            \* one ProxyWasmExecutor::execute: [pc, exports, request, context_id,
                   \* calls, result], the calls being the exports called so far
  kv               \* the last list a key-value host function serialized: [called, list,
                   \* bytes], the list it was given and the bytes it made of it

\* one connection: serve, its serve loop and the tasks it spawns
connection == <<conn, version, sup, chan, nachan, reply_handlers, task, wire, env>>

\* the service's stats cache
statistics == <<stats_cache, stats_rows, stats_last, stats_calls>>

\* what a connection's own steps leave alone
\* one request's host
hosting == <<host, host_last>>

\* the accept loop and the connections it has spawned serve for
accepting == <<listener, conns>>

\* the module side of one execution
plugin == <<exec, wasm, kv>>

\* what the module side leaves alone
service == <<connection, statistics, hosting, accepting>>

aside == <<statistics, hosting, accepting, plugin>>

vars == <<connection, aside>>

\* the stats cache of a new service
NoStatsEntry == [row |-> 0, idle |-> 0]
NoChunk == [row |-> 0, eos |-> FALSE, since |-> 0, n |-> 0]

\* the handler tasks of the connections, each in handle_request
StatsTasks == 1..MaxStatsTasks

NoStatsCall == [pc |-> "idle", handler |-> "none", eos |-> FALSE, id |-> "none", row |-> 0]

StatsInit ==
  /\ stats_cache = [k \in Traceparents |-> NoStatsEntry]
  /\ stats_rows = 0
  /\ stats_last = [k \in Traceparents |-> NoChunk]
  /\ stats_calls = [t \in StatsTasks |-> NoStatsCall]

\* a cache that is never asked
StatsNeverHit(entry) == FALSE

\* stats_cache.get finds an entry that was used less than time_to_idle ago
StatsHit(entry) == entry.row # 0 /\ entry.idle < STATS_IDLE_MS

\* get_stats_row: the row handle_request hands to the executor. A handler other than
\* the two body handlers gets a new row; a body chunk gets the row cached under its
\* request id, which end_of_stream invalidates, or a new row, which is cached unless
\* end_of_stream
GetStatsRow(handler, end_of_stream, request_id) ==
  LET body == handler \in {"OnRequestBody", "OnResponseBody"}
      entry == stats_cache[request_id]
      hit == body /\ StatsHit(entry)
      stats == IF hit THEN entry.row ELSE stats_rows + 1
  IN  /\ hit \/ stats_rows < MaxRows
      /\ stats_rows' = IF hit THEN stats_rows ELSE stats_rows + 1
      /\ stats_cache' =
           IF ~body THEN stats_cache
           ELSE IF hit
             THEN [stats_cache EXCEPT ![request_id] =
                     IF end_of_stream THEN NoStatsEntry ELSE [row |-> entry.row, idle |-> 0]]
             ELSE IF ~end_of_stream
               THEN [stats_cache EXCEPT ![request_id] = [row |-> stats, idle |-> 0]]
               ELSE stats_cache
      /\ stats_last' =
           IF body
             THEN [stats_last EXCEPT ![request_id] =
                     [row |-> stats, eos |-> end_of_stream, since |-> 0,
                      n |-> IF hit THEN Min(@.n + 1, MaxChunks) ELSE 1]]
             ELSE stats_last
      /\ UNCHANGED <<stats_calls, connection, plugin, hosting, accepting>>

\* time passes for the stats cache: every entry has been idle for longer
StatsTick ==
  /\ \E k \in Traceparents : stats_last[k].row # 0 /\ stats_last[k].since < STATS_IDLE_MS
  /\ stats_cache' = [k \in Traceparents |->
                       IF stats_cache[k].row = 0 THEN stats_cache[k]
                       ELSE [stats_cache[k] EXCEPT !.idle = Min(@ + StatsTickMs, STATS_IDLE_MS)]]
  /\ stats_last' = [k \in Traceparents |->
                      IF stats_last[k].row = 0 THEN stats_last[k]
                      ELSE [stats_last[k] EXCEPT !.since = Min(@ + StatsTickMs, STATS_IDLE_MS)]]
  /\ UNCHANGED <<stats_rows, stats_calls, connection, plugin, hosting, accepting>>

\* get_stats_row as the handler tasks run it: serve_v1 and serve_v2a spawn a task for
\* each request, the tasks run on the runtime's threads, and the cache is a
\* mini_moka::sync::Cache, so that every operation on the cache is a step of its own
\* and the steps of two tasks interleave

\* a handler that goes to the cache whatever it is
AnyHandler(handler) == TRUE

\* the match on the request: the two body handlers have end_of_stream
IsBody(handler) == handler \in {"OnRequestBody", "OnResponseBody"}

\* the match, and for a body chunk stats_cache.get; any other handler returns a new
\* row at once
StatsGet(t, handler, end_of_stream, request_id) ==
  LET entry == stats_cache[request_id]
      call == [pc |-> "done", handler |-> handler, eos |-> end_of_stream,
               id |-> request_id, row |-> 0]
  IN  /\ stats_calls[t].pc = "idle"
      /\ IF ~IsBody(handler)
           THEN /\ stats_rows < MaxRows
                /\ stats_rows' = stats_rows + 1
                /\ stats_calls' = [stats_calls EXCEPT ![t] =
                                     [call EXCEPT !.row = stats_rows + 1]]
                /\ UNCHANGED stats_cache
           ELSE IF StatsHit(entry)
             THEN /\ stats_calls' = [stats_calls EXCEPT ![t] =
                                       [call EXCEPT !.row = entry.row,
                                                    !.pc = IF end_of_stream THEN "invalidate"
                                                           ELSE "done"]]
                  /\ stats_cache' = [stats_cache EXCEPT ![request_id].idle = 0]
                  /\ UNCHANGED stats_rows
             ELSE /\ stats_calls' = [stats_calls EXCEPT ![t] = [call EXCEPT !.pc = "new"]]
                  /\ UNCHANGED <<stats_cache, stats_rows>>
      /\ UNCHANGED <<stats_last, connection, plugin, hosting, accepting>>

\* the get found a row and the chunk ends the stream: stats_cache.invalidate
StatsInvalidate(t) ==
  /\ stats_calls[t].pc = "invalidate"
  /\ stats_cache' = [stats_cache EXCEPT ![stats_calls[t].id] = NoStatsEntry]
  /\ stats_calls' = [stats_calls EXCEPT ![t].pc = "done"]
  /\ UNCHANGED <<stats_rows, stats_last, connection, plugin, hosting, accepting>>

\* the get found none: new_stats_row
StatsNewRow(t) ==
  /\ stats_calls[t].pc = "new"
  /\ stats_rows < MaxRows
  /\ stats_rows' = stats_rows + 1
  /\ stats_calls' = [stats_calls EXCEPT ![t].row = stats_rows + 1,
                                        ![t].pc = IF stats_calls[t].eos THEN "done"
                                                  ELSE "insert"]
  /\ UNCHANGED <<stats_cache, stats_last, connection, plugin, hosting, accepting>>

\* and, the chunk not ending the stream, stats_cache.insert
StatsInsert(t) ==
  /\ stats_calls[t].pc = "insert"
  /\ stats_cache' = [stats_cache EXCEPT ![stats_calls[t].id] =
                       [row |-> stats_calls[t].row, idle |-> 0]]
  /\ stats_calls' = [stats_calls EXCEPT ![t].pc = "done"]
  /\ UNCHANGED <<stats_rows, stats_last, connection, plugin, hosting, accepting>>

\* the handler ends and its row goes with it
StatsLeave(t) ==
  /\ stats_calls[t].pc = "done"
  /\ stats_calls' = [stats_calls EXCEPT ![t] = NoStatsCall]
  /\ UNCHANGED <<stats_cache, stats_rows, stats_last, connection, plugin, hosting, accepting>>

(***************************************************************************)
(* Handshake                                                               *)
(***************************************************************************)
\* Version::try_from(u32)
VersionOf(n) == CASE n = 1 -> "V1" [] n = 2 -> "V2" [] n = 42 -> "V2a" [] OTHER -> "none"

HandshakeFrames == {[kind |-> "Handshake", versions |-> vs] : vs \in SeqsUpTo(OfferableVersions, MaxOffered)}

\* a HostError frame, a frame the codec cannot decode, a frame of a kind the reader
\* does not expect, the end of the stream
BreakFrames == {[kind |-> k] : k \in {"HostError", "Garbage", "Unexpected", "Eof"}}

\* serve's handshake select arm: read one frame, intersect the offered versions
\* with SUPPORTED_VERSIONS as HashSets, collect the intersection into a Vec (in the
\* set's iteration order, which the hasher's random keys decide), take its first
\* element and reply with the whole Vec
Handshake ==
  /\ conn = "handshake"
  /\ \E frame \in HandshakeFrames \cup BreakFrames :
       IF frame.kind = "Handshake"
         THEN LET supported_versions == SUPPORTED_VERSIONS \cap Range(frame.versions) IN
              IF supported_versions = {}
                THEN /\ conn' = "closed"
                     /\ env' = [env EXCEPT !.offered = <<frame.versions>>, !.why = "other"]
                     /\ UNCHANGED version
                ELSE \E order \in Orderings(supported_versions) :
                       /\ version' = VersionOf(order[1])
                       /\ conn' = "serving"
                       /\ env' = [env EXCEPT !.offered = <<frame.versions>>, !.reply = order]
         ELSE /\ conn' = "closed"
              /\ env' = [env EXCEPT !.why = IF frame.kind = "HostError" THEN "HostError" ELSE "other"]
              /\ UNCHANGED version
  /\ UNCHANGED <<sup, chan, nachan, reply_handlers, task, wire>>
  /\ UNCHANGED aside

(***************************************************************************)
(* Results, tasks and messages                                             *)
(***************************************************************************)
\* a HostError: InternalFailure, and what HostError::from makes of a ProxyStatus
NoError == [variant |-> "none", from |-> "none"]

InternalFailure == [variant |-> "InternalFailure", from |-> "none"]

HostErrorFrom(status) == [variant |-> "from", from |-> status]

\* the Response a result was made from: its status, its bytes and the number of the
\* call the proxy sent it in answer to (0: in answer to none)
NoResponse == [status |-> "none", value |-> EmptyBytes, ans |-> 0]

\* what a host call returned: a Result<WasmBytes, HostError>, with the arm of
\* request_reply's match that made it ("reply", "timeout", "recv", "send"; "local"
\* for a result of proxy_send_local_response) and the Response it was made from
NoResult == [tag |-> "none", bytes |-> EmptyBytes, err |-> NoError, arm |-> "none", resp |-> NoResponse]

Ok(b) == [NoResult EXCEPT !.tag = "Ok", !.bytes = b]

Err(e) == [NoResult EXCEPT !.tag = "Err", !.err = e]

IdleTask ==
  [pc |-> "idle", app |-> "none", handler |-> "none", stage |-> "none",
   call |-> 0, elapsed |-> 0, calls |-> 0, status_code |-> << >>,
   last |-> NoResult, cause |-> "none", ret |-> CONTINUE, next_action |-> CONTINUE,
   stats |-> "none", instantiated |-> FALSE]

DoneTask == [IdleTask EXCEPT !.pc = "done"]

\* hf, aw: HostFunction frames written, and those of them that await a reply;
\* ans: Responses the proxy has sent in answer to them; na: NextAction frames written;
\* act: the action in the NextAction frame serve_v1 has written
NoWire == [hf |-> 0, aw |-> 0, ans |-> 0, na |-> 0, act |-> 0]

\* a ProxyCommand: reply is the number of the call whose oneshot sender it carries
\* (0: reply is None)
Command(rid, reply, op, status, value) ==
  [rid |-> rid, reply |-> reply, op |-> op, status |-> status, value |-> value]

\* the bytes in the other order
LittleEndian(n) ==
  <<n % 256, (n \div 256) % 256, (n \div 65536) % 256, (n \div 16777216) % 256>>

\* i32::to_be_bytes and Buf::get_i32
ToBeBytes(n) ==
  <<(n \div 16777216) % 256, (n \div 65536) % 256, (n \div 256) % 256, n % 256>>

GetI32(b) ==
  (IF b[1] >= 128 THEN b[1] - 256 ELSE b[1]) * 16777216 + b[2] * 65536 + b[3] * 256 + b[4]

InFlight(r) == task[r].pc \notin {"idle", "done"}

(***************************************************************************)
(* The proxy                                                               *)
(***************************************************************************)
\* the inputs of the profile
Alphabet(full, lean) == IF env.detail THEN full ELSE lean

\* the statuses a Response can carry: v1's NginxMessage::Response has none

ResponseStatuses == IF version = "V1" THEN {"Ok"} ELSE Alphabet(Statuses, LeanStatuses)

\* requests the proxy sends, and host calls one module makes, in the profile
RequestBudget == IF env.detail THEN 1 ELSE MaxRequests
CallBudget == IF env.detail THEN MaxCalls ELSE LeanCalls
UnsolicitedBudget == IF env.detail THEN MaxUnsolicited ELSE 0

\* the next request: v1 NginxMessage::Request, v2/v2a FilterCallback::Entrypoint
EntrypointFrames ==
  IF env.next <= RequestBudget
    THEN {[kind |-> "Entrypoint", rid |-> env.next, app |-> app, handler |-> handler,
           id |-> TRUE] :
            app \in Alphabet(AppKinds, LeanAppKinds),
            handler \in Alphabet(Handlers, LeanHandlers)}
    ELSE {}

\* a Response to the oldest call of r the proxy has seen and not answered yet
AnswerFrames ==
  {[kind |-> "Response", rid |-> r, status |-> status, value |-> value, ans |-> wire[r].ans + 1,
    id |-> TRUE] :
     r \in {x \in RequestIds : wire[x].ans < wire[x].aw},
     status \in ResponseStatuses, value \in Alphabet(Payloads, LeanPayloads)}

\* a Response that answers no call (ans = 0)
UnsolicitedFrames ==
  IF env.unsol < UnsolicitedBudget
    THEN {[kind |-> "Response", rid |-> r, status |-> status, value |-> value, ans |-> 0,
           id |-> TRUE] :
            r \in RequestIds, status \in ResponseStatuses, value \in Alphabet(Payloads, LeanPayloads)}
    ELSE {}

\* the same frames with None for the RequestId, which only v2a reads (v1's id is
\* not an Option, serve_v2 does not look at it): rid is then the transaction the
\* proxy meant
NoIdFrames ==
  IF version = "V2a"
    THEN {[frame EXCEPT !.id = FALSE] : frame \in EntrypointFrames \cup AnswerFrames}
    ELSE {}

\* what the next read of the stream can yield once the connection serves
Readable ==
  EntrypointFrames \cup AnswerFrames \cup UnsolicitedFrames \cup NoIdFrames \cup BreakFrames

\* the proxy's books once the sidecar has read frame
Sent(frame) ==
  CASE frame.kind \in {"Entrypoint", "Response"} /\ ~frame.id -> [env EXCEPT !.why = "missing"]
    [] frame.kind = "Entrypoint" -> [env EXCEPT !.next = @ + 1]
    [] frame.kind = "Response" /\ frame.ans = 0 -> [env EXCEPT !.unsol = @ + 1]
    [] OTHER -> env

\* the proxy's books once the sidecar has read frame, which is, if stray, not a
\* frame its reader goes on after: why notes what the connection met last of a
\* HostError frame, the shutdown signal, a frame without its RequestId and any
\* other stray frame
Read(frame, stray) ==
  IF stray
    THEN [Sent(frame) EXCEPT !.why = IF frame.kind = "HostError" THEN "HostError"
                                     ELSE IF @ = "missing" THEN @ ELSE "other"]
    ELSE Sent(frame)

Answered(frame) ==
  IF frame.kind = "Response" /\ frame.ans # 0
    THEN [wire EXCEPT ![frame.rid].ans = @ + 1]
    ELSE wire

\* the proxy reads the sidecar's Handshake reply
ProxyReadHandshake ==
  /\ env.offered # << >>
  /\ env' = [env EXCEPT !.offered = << >>, !.reply = << >>]
  /\ UNCHANGED <<conn, version, sup, chan, nachan, reply_handlers, task, wire>>
  /\ UNCHANGED aside

(***************************************************************************)
(* handle_request and ProxyWasmExecutor::execute: what a request returns   *)
(***************************************************************************)
\* a lookup that takes a Draft or Disabled application for an unknown one
LookupDraftAsUnknown(app) ==
  CASE app \in {"Unknown", "Draft", "Disabled"} -> NOT_FOUND
    [] app = "RateLimited" -> TOO_MANY_REQUESTS
    [] OTHER -> INTERNAL_ERROR

\* handle_request's lookup: the statuses that end a request at once
LookupAction(app) ==
  CASE app = "Unknown" -> NOT_FOUND
    [] app \in {"Draft", "Disabled"} -> NOT_ACCEPTABLE
    [] app = "RateLimited" -> TOO_MANY_REQUESTS
    [] OTHER -> INTERNAL_ERROR

\* a result in which a status_code that was set always wins
StatusCodeWins(handler, ret, status_code) ==
  IF status_code # << >> THEN status_code[1]
  ELSE IF handler = "OnLog" THEN CONTINUE ELSE ret

\* execute's last lines: the handler's return value against the status_code cell
ExecuteResult(handler, ret, status_code) ==
  LET next_action == IF handler = "OnLog" THEN CONTINUE ELSE ret IN
  IF status_code # << >> /\ next_action # CONTINUE
    THEN status_code[1]
    ELSE next_action

\* an error mapping without the arm for tokio's Elapsed
ErrorActionWithoutElapsed(cause) ==
  CASE cause = "Exit0" -> CONTINUE
    [] cause = "ExitNonZero" -> EXECUTION_PANIC
    [] cause = "TrapInterrupt" -> EXECUTION_TIMEOUT
    [] cause = "TrapUnreachable" -> OUT_OF_MEMORY
    [] cause = "TrapOther" -> EXECUTION_PANIC
    [] OTHER -> INTERNAL_ERROR

\* handle_request's Err arm: the root cause's action code
ErrorAction(cause) ==
  CASE cause = "Exit0" -> CONTINUE
    [] cause = "ExitNonZero" -> EXECUTION_PANIC
    [] cause = "TrapInterrupt" -> EXECUTION_TIMEOUT
    [] cause = "TrapUnreachable" -> OUT_OF_MEMORY
    [] cause = "TrapOther" -> EXECUTION_PANIC
    [] cause = "Elapsed" -> EXECUTION_TIMEOUT
    [] OTHER -> INTERNAL_ERROR

\* handle_request's Err arm: the root cause's AppResult
FailReason(cause) ==
  CASE cause = "Exit0" -> "SUCCESS"
    [] cause = "ExitNonZero" -> "OTHER"
    [] cause = "TrapInterrupt" -> "TIMEOUT"
    [] cause = "TrapUnreachable" -> "OOM"
    [] cause = "TrapOther" -> "OTHER"
    [] cause = "Elapsed" -> "TIMEOUT"
    [] OTHER -> "OTHER"

\* the task once handle_request has returned before looking anything up
ShortCircuited(t) ==
  [t EXCEPT !.pc = "finish", !.next_action = LookupAction(t.app)]

\* the task once execute has returned Ok(ret)
Succeeded(t, ret) ==
  [t EXCEPT !.pc = "finish", !.ret = ret, !.last = NoResult, !.elapsed = 0,
            !.next_action = ExecuteResult(t.handler, ret, t.status_code)]

\* the task once execute has returned Err with this root cause
Failed(t, cause) ==
  [t EXCEPT !.pc = "finish", !.cause = cause, !.last = NoResult, !.elapsed = 0,
            !.next_action = ErrorAction(cause), !.stats = FailReason(cause)]

(***************************************************************************)
(* ProxyWasmHost::request_reply and ::command                              *)
(***************************************************************************)
\* request_reply's match on what the timeout around the oneshot receiver yields
ReplyResult(status, value) ==
  IF status = "Ok" THEN Ok(value) ELSE Err(HostErrorFrom(status))

\* the result of the call whose receiver got frame with this status
Delivered(status, frame) ==
  [ReplyResult(status, frame.value) EXCEPT
     !.arm = "reply",
     !.resp = [status |-> status, value |-> frame.value, ans |-> frame.ans]]

\* the line the source has commented out in the timeout's Err(Elapsed) arm
TimeoutAsError == Err(InternalFailure)

\* the timeout's Err(Elapsed) arm
TimeoutResult == Ok(EmptyBytes)

\* a receiver error that is swallowed as the timeout is
RecvErrorAsEmpty == Ok(EmptyBytes)

\* the receiver's Err(RecvError) arm
RecvErrorResult == Err(InternalFailure)

\* tx.send(..).await fails: the channel's receiver is gone
SendErrorResult == Err(InternalFailure)

\* the task when its request_reply returns res: what the caller does with it
\*   traceparent (handle_request): get_stats_row, then execute starts
\*   props (load_properties): Err ends execute, Ok builds the store and instantiates
\*   module, command: back in the module
AfterReply(t, res) ==
  CASE t.stage = "traceparent" ->
         [t EXCEPT !.pc = "props", !.last = res, !.elapsed = 0, !.stats = "unset"]
    [] t.stage = "props" ->
         IF res.tag = "Ok"
           THEN [t EXCEPT !.pc = "run", !.last = res, !.elapsed = 0, !.instantiated = TRUE]
           ELSE Failed(t, "Other")
    [] t.stage = "command" ->
         [t EXCEPT !.pc = "run", !.elapsed = 0,
                   !.last = IF res.tag = "Ok" THEN Ok(EmptyBytes) ELSE res]
    [] OTHER ->
         [t EXCEPT !.pc = "run", !.last = res, !.elapsed = 0]

Waiting(r, n) == task[r].pc = "wait" /\ task[r].call = n

\* the oneshot sender of r's current call is still held somewhere
SenderAlive(r) ==
  \/ \E i \in DOMAIN chan : chan[i].rid = r /\ chan[i].reply = task[r].call
  \/ reply_handlers[r] = task[r].call
  \/ sup.pc = "await" /\ sup.rid = r /\ sup.call = task[r].call

\* request_reply up to the await on the receiver: make the oneshot, send the
\* ProxyCommand on tx (waits for room, fails when rx is gone), arm the timeout
\* tokio::sync::mpsc::channel(1024) of serve_v1 and serve_v2a (tx and
\* next_action_tx), channel(32) of serve_v2; the model's channels hold at most
\* ChannelCapacity messages
CHANNEL_V1 == 1024
CHANNEL_V2 == 32
Capacity == Min(ChannelCapacity, IF version = "V2" THEN CHANNEL_V2 ELSE CHANNEL_V1)

\* a channel that takes every message
AlwaysRoom(queue) == TRUE

\* Sender::send(..).await completes only when the channel has a free slot
HasRoom(queue) == Len(queue) < Capacity

IssueCall(r, stage, op, calls) ==
  LET t == [task[r] EXCEPT !.stage = stage, !.calls = calls] IN
  IF conn = "closed"
    THEN /\ task' = [task EXCEPT ![r] = AfterReply(t, [SendErrorResult EXCEPT !.arm = "send"])]
         /\ UNCHANGED chan
    ELSE /\ HasRoom(chan)
         /\ chan' = Append(chan, Command(r, t.call + 1, op, "none", EmptyBytes))
         /\ task' = [task EXCEPT ![r] = [t EXCEPT !.pc = "wait", !.call = @ + 1,
                                                  !.elapsed = 0, !.last = NoResult]]

(***************************************************************************)
(* The handler task of request r                                           *)
(***************************************************************************)
\* handle_request from its entry to the traceparent lookup
TaskStart(r) ==
  /\ task[r].pc = "start"
  /\ IF task[r].app = "Enabled"
       THEN IssueCall(r, "traceparent", "GetMapValue", 0)
       ELSE /\ task' = [task EXCEPT ![r] = ShortCircuited(task[r])]
            /\ UNCHANGED chan
  /\ UNCHANGED <<conn, version, sup, nachan, reply_handlers, wire, env>>
  /\ UNCHANGED aside

\* execute from its entry to load_properties' lookup of request.x_real_ip
TaskLoadProperties(r) ==
  /\ task[r].pc = "props"
  /\ IssueCall(r, "props", "GetProperty", 0)
  /\ UNCHANGED <<conn, version, sup, nachan, reply_handlers, wire, env>>
  /\ UNCHANGED aside

\* the module calls a host function that awaits the proxy's reply
\* (proxy_get_buffer_bytes)
ModuleRequestReply(r) ==
  /\ task[r].pc = "run"
  /\ task[r].calls < CallBudget
  /\ IssueCall(r, "module", "GetBufferBytes", task[r].calls + 1)
  /\ UNCHANGED <<conn, version, sup, nachan, reply_handlers, wire, env>>
  /\ UNCHANGED aside

\* the module calls a host function that sends a command (proxy_set_buffer_bytes):
\* v1 and v2a send it and return, v2 goes through request_reply
ModuleCommand(r) ==
  /\ task[r].pc = "run"
  /\ task[r].calls < CallBudget
  /\ IF version = "V2"
       THEN IssueCall(r, "command", "SetBufferBytes", task[r].calls + 1)
       ELSE IF conn = "closed"
         THEN /\ task' = [task EXCEPT ![r].calls = @ + 1, ![r].last = SendErrorResult]
              /\ UNCHANGED chan
         ELSE /\ HasRoom(chan)
              /\ chan' = Append(chan, Command(r, 0, "SetBufferBytes", "none", EmptyBytes))
              /\ task' = [task EXCEPT ![r].calls = @ + 1, ![r].last = Ok(EmptyBytes)]
  /\ UNCHANGED <<conn, version, sup, nachan, reply_handlers, wire, env>>
  /\ UNCHANGED aside

\* a cell that takes every value it is given
CellOverwrite(cell, value) == <<value>>

\* OnceCell::set: the cell after the call (an empty cell takes the value, a full one
\* keeps its own and the call returns Err)
OnceCellSet(cell, value) == IF cell = << >> THEN <<value>> ELSE cell

\* the module calls proxy_send_local_response: status_code.set(..), its error
\* mapped to InternalFailure
ModuleSendLocalResponse(r) ==
  /\ task[r].pc = "run"
  /\ task[r].calls < CallBudget
  /\ \E status_code \in Alphabet(LocalStatuses, LeanLocalStatuses) :
       task' = [task EXCEPT
                  ![r].calls = @ + 1,
                  ![r].status_code = OnceCellSet(@, status_code),
                  ![r].last = [IF task[r].status_code = << >>
                                 THEN Ok(EmptyBytes) ELSE Err(InternalFailure)
                               EXCEPT !.arm = "local"]]
  /\ UNCHANGED <<conn, version, sup, chan, nachan, reply_handlers, wire, env>>
  /\ UNCHANGED aside

\* the handler export returns (proxy_on_log returns nothing)
ModuleReturn(r) ==
  /\ task[r].pc = "run"
  /\ \E ret \in IF task[r].handler = "OnLog" THEN {CONTINUE} ELSE Alphabet(HandlerReturns, LeanReturns) :
       task' = [task EXCEPT ![r] = Succeeded(task[r], ret)]
  /\ UNCHANGED <<conn, version, sup, chan, nachan, reply_handlers, wire, env>>
  /\ UNCHANGED aside

\* the execution fails: the store cannot be built, the module exits or traps, or
\* the deadline around the handler call expires (also while a host call waits)
ModuleFail(r) ==
  /\ \/ /\ task[r].pc = "run"
        /\ \E cause \in Alphabet(Causes, LeanCauses) : task' = [task EXCEPT ![r] = Failed(task[r], cause)]
     \/ /\ task[r].pc = "wait"
        /\ task[r].stage \in {"module", "command"}
        /\ task' = [task EXCEPT ![r] = Failed(task[r], "Elapsed")]
  /\ UNCHANGED <<conn, version, sup, chan, nachan, reply_handlers, wire, env>>
  /\ UNCHANGED aside

\* time passes for the timeout of r's pending request_reply
Tick(r) ==
  /\ task[r].pc = "wait"
  /\ task[r].elapsed < REPLY_TIMEOUT_MS
  /\ task' = [task EXCEPT ![r].elapsed = Min(@ + TickMs, REPLY_TIMEOUT_MS)]
  /\ UNCHANGED <<conn, version, sup, chan, nachan, reply_handlers, wire, env>>
  /\ UNCHANGED aside

\* a request_reply that awaits its receiver without a timeout
AwaitWithoutTimeout(r) ==
  /\ FALSE
  /\ UNCHANGED vars

\* request_reply's timeout expires: timeout polls the receiver first, so that a
\* receiver whose sender is gone is not timed out but fails
RequestReplyTimeout(r) ==
  /\ task[r].pc = "wait"
  /\ task[r].elapsed >= REPLY_TIMEOUT_MS
  /\ SenderAlive(r)
  /\ task' = [task EXCEPT ![r] = AfterReply(task[r], [TimeoutResult EXCEPT !.arm = "timeout"])]
  /\ UNCHANGED <<conn, version, sup, chan, nachan, reply_handlers, wire, env>>
  /\ UNCHANGED aside

\* request_reply's receiver finds its sender dropped
RequestReplyRecvError(r) ==
  /\ task[r].pc = "wait"
  /\ ~SenderAlive(r)
  /\ task' = [task EXCEPT ![r] = AfterReply(task[r], [RecvErrorResult EXCEPT !.arm = "recv"])]
  /\ UNCHANGED <<conn, version, sup, chan, nachan, reply_handlers, wire, env>>
  /\ UNCHANGED aside

\* a task that ends without handing its action over
TaskEndsSilently(r) ==
  /\ task[r].pc = "finish"
  /\ task' = [task EXCEPT ![r] = DoneTask]
  /\ UNCHANGED <<conn, version, sup, chan, nachan, reply_handlers, wire, env>>
  /\ UNCHANGED aside

\* the spawned task's tail: v1 sends the action as a Response on tx, v2a sends it on
\* next_action_tx, v2 returns it through the JoinHandle
TaskSendNextAction(r) ==
  /\ task[r].pc = "finish"
  /\ IF conn = "closed"
       THEN /\ task' = [task EXCEPT ![r] = DoneTask]
            /\ UNCHANGED <<chan, nachan>>
       ELSE CASE version = "V1" ->
                   /\ HasRoom(chan)
                   /\ chan' = Append(chan, Command(r, 0, "Response", "Empty",
                                                   ToBeBytes(task[r].next_action)))
                   /\ task' = [task EXCEPT ![r] = DoneTask]
                   /\ UNCHANGED nachan
              [] version = "V2a" ->
                   /\ HasRoom(nachan)
                   /\ nachan' = Append(nachan, [rid |-> r, next_action |-> task[r].next_action])
                   /\ task' = [task EXCEPT ![r] = DoneTask]
                   /\ UNCHANGED chan
              [] OTHER ->
                   /\ task' = [task EXCEPT ![r] = [DoneTask EXCEPT
                                 !.pc = "joinable", !.next_action = task[r].next_action]]
                   /\ UNCHANGED <<chan, nachan>>
  /\ UNCHANGED <<conn, version, sup, reply_handlers, wire, env>>
  /\ UNCHANGED aside

(***************************************************************************)
(* The serve loops                                                         *)
(***************************************************************************)
NoSup == [pc |-> "read", rid |-> 0, call |-> 0]

\* the serve loop returns (or serve's select drops it): the stream, both channels
\* and the correlation table are dropped
Close ==
  /\ conn' = "closed"
  /\ chan' = << >>
  /\ nachan' = << >>
  /\ reply_handlers' = [r \in RequestIds |-> 0]
  /\ sup' = NoSup

Spawned(frame) == [IdleTask EXCEPT !.pc = "start", !.app = frame.app, !.handler = frame.handler]

\* a lookup of the sender that leaves it in the table
LookupHandler(handlers, r) == handlers

\* reply_handlers.remove(&request_id)
RemoveHandler(handlers, r) == [handlers EXCEPT ![r] = 0]

\* a read arm that logs a HostError frame and goes on
EndsButHostError(frame) == frame.kind \in {"Garbage", "Unexpected", "Eof"}

\* the frames the stream.next() arm of serve_v1 and serve_v2a returns on: a HostError,
\* a frame the codec cannot decode, a message of another kind, the end of the stream
Ends(frame) == frame.kind \in {"HostError", "Garbage", "Unexpected", "Eof"}

\* a reader that takes a frame with or without its RequestId
IdNotNeeded(frame) == FALSE

\* serve_v2a: let Some(request_id) = request_id else { bail!("missing request id") }
MissingRequestId(frame) == frame.kind \in {"Entrypoint", "Response"} /\ ~frame.id

\* serve_v1 / serve_v2a, the stream.next() arm
SupRead ==
  /\ conn = "serving"
  /\ env.offered = << >>
  /\ version \in {"V1", "V2a"}
  /\ \E frame \in Readable :
       /\ env' = Read(frame, frame.kind \notin {"Entrypoint", "Response"}
                             \/ MissingRequestId(frame))
       /\ CASE MissingRequestId(frame) ->
                 /\ Close
                 /\ UNCHANGED <<task, wire>>
            [] frame.kind = "Entrypoint" ->
                 /\ task' = [task EXCEPT ![frame.rid] = Spawned(frame)]
                 /\ UNCHANGED <<conn, sup, chan, nachan, reply_handlers, wire>>
            [] frame.kind = "Response" ->
                 LET r == frame.rid
                     n == reply_handlers[r]
                     status == IF version = "V1" THEN "Ok" ELSE frame.status
                 IN  /\ reply_handlers' = RemoveHandler(reply_handlers, r)
                     /\ wire' = Answered(frame)
                     /\ task' = IF n # 0 /\ Waiting(r, n)
                                  THEN [task EXCEPT ![r] = AfterReply(task[r], Delivered(status, frame))]
                                  ELSE task
                     /\ UNCHANGED <<conn, sup, chan, nachan>>
            [] Ends(frame) ->
                 /\ Close
                 /\ UNCHANGED <<task, wire>>
            [] OTHER ->
                 UNCHANGED <<conn, sup, chan, nachan, reply_handlers, task, wire>>
  /\ UNCHANGED version
  /\ UNCHANGED aside

\* serve_v1 / serve_v2a, the rx.recv() arm: write the command to the stream and
\* register its oneshot sender; v1 writes a Response{Empty, 4 bytes} as NextAction
SupSendCommand ==
  /\ conn = "serving"
  /\ version \in {"V1", "V2a"}
  /\ chan # << >>
  /\ LET m == Head(chan) IN
       /\ chan' = Tail(chan)
       /\ IF version = "V1" /\ m.op = "Response"
            THEN /\ wire' = IF m.status = "Empty" /\ Len(m.value) = 4
                              THEN [wire EXCEPT ![m.rid].na = @ + 1, ![m.rid].act = GetI32(m.value)]
                              ELSE wire
                 /\ UNCHANGED reply_handlers
            ELSE /\ wire' = [wire EXCEPT ![m.rid].hf = @ + 1,
                                         ![m.rid].aw = IF m.reply # 0 THEN @ + 1 ELSE @]
                 /\ reply_handlers' = IF m.reply # 0
                                        THEN [reply_handlers EXCEPT ![m.rid] = m.reply]
                                        ELSE reply_handlers
  /\ UNCHANGED <<conn, version, sup, nachan, task, env>>
  /\ UNCHANGED aside

\* serve_v2a, the next_action_rx.recv() arm
SupSendNextAction ==
  /\ conn = "serving"
  /\ version = "V2a"
  /\ nachan # << >>
  /\ nachan' = Tail(nachan)
  /\ wire' = [wire EXCEPT ![Head(nachan).rid].na = @ + 1]
  /\ UNCHANGED <<conn, version, sup, chan, reply_handlers, task, env>>
  /\ UNCHANGED aside

\* serve_v2, the outer loop's stream.next(): the next Entrypoint, a new channel
\* and a spawned handler
V2ReadEntrypoint ==
  /\ conn = "serving"
  /\ env.offered = << >>
  /\ version = "V2"
  /\ sup.pc = "read"
  /\ \E frame \in Readable :
       /\ env' = Read(frame, frame.kind # "Entrypoint")
       /\ IF frame.kind = "Entrypoint"
            THEN /\ task' = [task EXCEPT ![frame.rid] = Spawned(frame)]
                 /\ sup' = [pc |-> "drain", rid |-> frame.rid, call |-> 0]
                 /\ chan' = << >>
                 /\ UNCHANGED <<conn, nachan, reply_handlers, wire>>
            ELSE /\ Close
                 /\ wire' = Answered(frame)
                 /\ UNCHANGED task
  /\ UNCHANGED version
  /\ UNCHANGED aside

\* a serve_v2 that goes on to the next command whatever m.reply holds
AfterWriteNoAwait(s, m) == s

\* serve_v2 after it has written command m: with a sender in m.reply it reads the
\* stream for the Response before it receives the next command
AfterWrite(s, m) == IF m.reply # 0 THEN [s EXCEPT !.pc = "await", !.call = m.reply] ELSE s

\* serve_v2, the inner loop's rx.recv() yields a command: write it
V2SendCommand ==
  /\ conn = "serving"
  /\ version = "V2"
  /\ sup.pc = "drain"
  /\ chan # << >>
  /\ LET m == Head(chan) IN
       /\ chan' = Tail(chan)
       /\ wire' = [wire EXCEPT ![sup.rid].hf = @ + 1,
                               ![sup.rid].aw = IF m.reply # 0 THEN @ + 1 ELSE @]
       /\ sup' = AfterWrite(sup, m)
  /\ UNCHANGED <<conn, version, nachan, reply_handlers, task, env>>
  /\ UNCHANGED aside

\* serve_v2, after a command that carries a sender: the next frame must be a
\* Response (whatever id it carries, it is the answer to that command), and the
\* sender's receiver must still be there
V2ReadResponse ==
  /\ conn = "serving"
  /\ version = "V2"
  /\ sup.pc = "await"
  /\ \E frame \in EntrypointFrames \cup AnswerFrames \cup BreakFrames :
       /\ env' = Read(frame, ~(frame.kind = "Response" /\ Waiting(sup.rid, sup.call)))
       /\ wire' = Answered(frame)
       /\ IF frame.kind = "Response" /\ Waiting(sup.rid, sup.call)
            THEN /\ task' = [task EXCEPT ![sup.rid] =
                               AfterReply(task[sup.rid], Delivered(frame.status, frame))]
                 /\ sup' = [sup EXCEPT !.pc = "drain", !.call = 0]
                 /\ UNCHANGED <<conn, chan, nachan, reply_handlers>>
            ELSE /\ Close
                 /\ UNCHANGED task
  /\ UNCHANGED version
  /\ UNCHANGED aside

\* serve_v2, the inner loop ends (every sender of the channel is dropped): join the
\* handler and write its NextAction
V2SendNextAction ==
  /\ conn = "serving"
  /\ version = "V2"
  /\ sup.pc = "drain"
  /\ chan = << >>
  /\ task[sup.rid].pc = "joinable"
  /\ wire' = [wire EXCEPT ![sup.rid].na = @ + 1]
  /\ task' = [task EXCEPT ![sup.rid] = DoneTask]
  /\ sup' = NoSup
  /\ UNCHANGED <<conn, version, chan, nachan, reply_handlers, env>>
  /\ UNCHANGED aside

\* a serve that looks at the shutdown signal only while it waits for the Handshake
ShutdownAtHandshakeOnly ==
  /\ conn = "handshake"
  /\ Close
  /\ env' = [env EXCEPT !.why = "shutdown"]
  /\ UNCHANGED <<version, task, wire>>
  /\ UNCHANGED aside

\* serve's selects, around the handshake and around each serve loop: the shutdown
\* signal
Shutdown ==
  /\ conn # "closed"
  /\ Close
  /\ env' = [env EXCEPT !.why = "shutdown"]
  /\ UNCHANGED <<version, task, wire>>
  /\ UNCHANGED aside

(***************************************************************************)
(* run: the accept loop, and the serve tasks it spawns, each with a stream, *)
(* a version and a correlation table of its own                             *)
(***************************************************************************)
ConnIds == 1..MaxConnections

NoConn == [st |-> "none", version |-> "none", table |-> {}, inflight |-> {}]

AcceptInit ==
  /\ listener = [backoff |-> 1, delay |-> 0, cancel |-> TRUE]
  /\ conns = [c \in ConnIds |-> NoConn]

\* listener.accept() returns a stream: serve is spawned for it if the cancel handle
\* is still there, and else the stream is dropped
AcceptOk(c) ==
  /\ conns[c].st = "none"
  /\ \A d \in ConnIds : d < c => conns[d].st # "none"
  /\ IF listener.cancel
       THEN /\ conns' = [conns EXCEPT ![c].st = "handshake"]
            /\ listener' = [listener EXCEPT !.backoff = 1, !.delay = 0]
       ELSE /\ listener.backoff <= MaxBackoff
            /\ listener' = [listener EXCEPT !.backoff = @ * 2, !.delay = 0]
            /\ UNCHANGED conns
  /\ UNCHANGED <<connection, plugin, statistics, hosting>>

\* listener.accept() returns an error: sleep, then reset or double the backoff
AcceptErr ==
  /\ listener' = [listener EXCEPT
                    !.delay = listener.backoff * 100,
                    !.backoff = IF @ > ConfigBackoff THEN 1 ELSE @ * 2]
  /\ UNCHANGED <<conns, connection, plugin, statistics, hosting>>

\* the owner of the ShutdownHandle drops it
CancelDropped ==
  /\ listener.cancel
  /\ listener' = [listener EXCEPT !.cancel = FALSE]
  /\ UNCHANGED <<conns, connection, plugin, statistics, hosting>>

\* serve's handshake on connection c: a version, or the task returns
ConnHandshake(c) ==
  /\ conns[c].st = "handshake"
  /\ \/ \E v \in SUPPORTED_VERSIONS :
          conns' = [conns EXCEPT ![c].st = "serving", ![c].version = VersionOf(v)]
     \/ conns' = [conns EXCEPT ![c].st = "closed"]
  /\ UNCHANGED <<listener, connection, plugin, statistics, hosting>>

\* the serve loop of connection c takes a step: it reads a request and spawns its
\* handler, writes a command of request r and registers its sender, reads a Response
\* and removes the sender, or a handler of its ends
ConnServe(c) ==
  /\ conns[c].st = "serving"
  /\ \E r \in RequestIds :
       \/ /\ r \notin conns[c].inflight
          /\ conns' = [conns EXCEPT ![c].inflight = @ \cup {r}]
       \/ /\ r \in conns[c].inflight
          /\ conns' = [conns EXCEPT ![c].table = @ \cup {r}]
       \/ /\ r \in conns[c].table
          /\ conns' = [conns EXCEPT ![c].table = @ \ {r}]
       \/ /\ r \in conns[c].inflight
          /\ r \notin conns[c].table
          /\ conns' = [conns EXCEPT ![c].inflight = @ \ {r}]
  /\ UNCHANGED <<listener, connection, plugin, statistics, hosting>>

\* a decode error that takes the service down with it
DecodeErrorAbortsAll(c) ==
  /\ conns[c].st \in {"handshake", "serving"}
  /\ conns' = [d \in ConnIds |->
                 IF conns[d].st \in {"handshake", "serving"}
                   THEN [conns[d] EXCEPT !.st = "aborted", !.table = {}]
                   ELSE conns[d]]
  /\ UNCHANGED <<listener, connection, plugin, statistics, hosting>>

\* the stream of connection c yields Some(Err(error)): handshake fails or the serve
\* loop bails, serve returns, and what the task owned is dropped
ConnDecodeError(c) ==
  /\ conns[c].st \in {"handshake", "serving"}
  /\ conns' = [conns EXCEPT ![c].st = "aborted", ![c].table = {}]
  /\ UNCHANGED <<listener, connection, plugin, statistics, hosting>>

(***************************************************************************)
(* One request's host: the ProxyWasmHost handle_request is given and the   *)
(* Proxy execute builds on it, as the module's host calls drive them. The  *)
(* connection stays open here, and a round trip to the proxy is one step:  *)
(* the frame is enqueued, the timeout is armed, and the call returns what  *)
(* the proxy answered or, at the timeout, Ok of no bytes                   *)
(***************************************************************************)

None == << >>
Some(v) == <<v>>

\* HostError::NotFound and HostError::ParseFailure
NotFound == [variant |-> "NotFound", from |-> "none"]
ParseFailure == [variant |-> "ParseFailure", from |-> "none"]
Utf8Error == [variant |-> "Utf8Error", from |-> "none"]

\* a HostFunction message
Msg(fn, map_type, key, value) == [fn |-> fn, map_type |-> map_type, key |-> key, value |-> value]
GetProperty(path) == Msg("GetProperty", "none", path, EmptyBytes)
SetProperty(path, value) == Msg("SetProperty", "none", path, value)
NoMsg == Msg("none", "none", "none", EmptyBytes)

\* AdditionalInfo: the request's headers in order and its property bindings
AdditionalInfo(request_headers, properties) ==
  [headers |-> request_headers, properties |-> properties]

NoProperties == [p \in PropertyPaths |-> None]

\* the AdditionalInfo a proxy attaches to an Entrypoint
AdditionalInfos ==
  {AdditionalInfo(<< >>, NoProperties),
   AdditionalInfo(<< <<"X-CDN-Real-Host", <<"a">>>> >>,
                  [NoProperties EXCEPT ![REQUEST_PATH] = Some(<<"b">>)]),
   AdditionalInfo(<< <<"X-Forwarded-Proto", <<"b">>>>, <<"X-CDN-Real-Host", <<"a">>>> >>,
                  [NoProperties EXCEPT ![REQUEST_X_REAL_IP] = Some(<<"a">>)])}

\* the serialized form of a header list, and the list a serialized form holds
RECURSIVE SerializePairs(_)
SerializePairs(headers) ==
  IF headers = << >> THEN << >>
  ELSE <<Head(headers)[1]>> \o Head(headers)[2] \o <<"nul">> \o SerializePairs(Tail(headers))

Serialize(headers) == <<"pairs">> \o SerializePairs(headers)

Deserialize(map) ==
  IF \E h \in HeaderLists : Serialize(h) = map
    THEN CHOOSE h \in HeaderLists : Serialize(h) = map
    ELSE << >>

\* AdditionalInfo's methods
get_request_headers(info) == Serialize(info.headers)

get_request_header_value(info, key) ==
  LET found == SelectSeq(info.headers, LAMBDA h : h[1] = key)
  IN  IF found = << >> THEN None ELSE Some(found[1][2])

get_property_value(info, path) == info.properties[path]

add_request_header_value(info, key, value) ==
  [info EXCEPT !.headers = Append(@, <<key, value>>)]

remove_request_header_value(info, key) ==
  [info EXCEPT !.headers = SelectSeq(@, LAMBDA h : h[1] # key)]

replace_request_header_value(info, key, value) ==
  add_request_header_value(remove_request_header_value(info, key), key, value)

set_request_headers(info, map) == [info EXCEPT !.headers = Deserialize(map)]

\* the host before a request has one
NoHost ==
  [live |-> FALSE,             \* a request is running
   version |-> "none",         \* ProxyWasmHost::version
   shield |-> FALSE,           \* node_description's role is edge_shield
   additional_info |-> None,   \* ProxyWasmHost::additional_info
   property_cache |-> NoProperties,  \* Proxy::property_cache
   stage |-> "none",           \* handle_request: "traceparent", "properties", then
                               \* "module" when the module runs ("failed": it never does)
   lookups |-> << >>,          \* the request_reply calls handle_request and execute
                               \* have made themselves: [msg, asked], asked when the
                               \* message went to the proxy
   sent |-> 0,                 \* the ProxyCommands the request's module has put on tx
   out |-> << >>,              \* those of them the module's last host call put there
   armed |-> 0,                \* the timeouts the request has armed
   calls |-> 0,                \* the host calls the request's module has made
   requests |-> 0,             \* the requests so far
   resolved |-> NoProperties,  \* what proxy_get_property last resolved each path to
                               \* in this request, the cache aside
   hits |-> {},                \* the <<path, value>> the last call took from the cache
   issued |-> None]            \* the headers the AdditionalInfo came with, under the
                               \* edits the request's commands have carried since

HostInit ==
  /\ host = NoHost
  /\ host_last = [msg |-> NoMsg, res |-> NoResult]

\* what a call does: the state it leaves and the result it returns
Outcome(st, res) == [st |-> st, res |-> res]

\* the outcomes of a call and then, where it returned Ok, of what follows it
Then(outs, follow(_)) ==
  UNION {IF o.res.tag = "Ok" THEN follow(o) ELSE {o} : o \in outs}

\* what the proxy answers a round trip with, the timeout's Ok of no bytes included
HostAnswers ==
  {ReplyResult("Ok", <<"a">>), ReplyResult("NotFound", EmptyBytes), TimeoutResult}

\* and to GetProperty(request.x_real_ip) also with bytes that are no UTF-8
Answers(message) ==
  HostAnswers \cup (IF message.fn = "GetProperty" /\ message.key = REQUEST_X_REAL_IP
                      THEN {ReplyResult("Ok", <<"0xFF">>)} ELSE {})

\* a request_reply that asks nobody
NoShortcut(additional_info, message) == None

\* request_reply's answer from the AdditionalInfo, if it has one
Shortcut(additional_info, message) ==
  IF additional_info = None THEN None
  ELSE LET info == additional_info[1]
       IN  CASE message.fn = "GetMapPairs" /\ message.map_type = "HttpRequestHeaders" ->
                  Some(Ok(get_request_headers(info)))
             [] message.fn = "GetMapValue" /\ message.map_type = "HttpRequestHeaders" ->
                  LET value == get_request_header_value(info, message.key)
                  IN  IF value # None THEN Some(Ok(value[1])) ELSE Some(Err(NotFound))
             [] message.fn = "GetProperty" ->
                  LET value == get_property_value(info, message.key)
                  IN  IF value # None THEN Some(Ok(value[1])) ELSE None
             [] OTHER -> None

\* ProxyWasmHost::request_reply
request_reply(st, message) ==
  LET cut == Shortcut(st.additional_info, message)
  IN  IF cut # None
        THEN {Outcome(st, cut[1])}
        ELSE {Outcome([st EXCEPT !.sent = @ + 1, !.armed = @ + 1,
                                 !.out = Append(@, message)], a) : a \in Answers(message)}

\* a command that edits nothing
NoEdit(info, message) == info

\* command's edit of the AdditionalInfo
ApplyEdit(info, message) ==
  IF message.map_type # "HttpRequestHeaders" THEN info
  ELSE CASE message.fn = "AddMapValue" ->
              add_request_header_value(info, message.key, message.value)
         [] message.fn = "ReplaceMapValue" ->
              replace_request_header_value(info, message.key, message.value)
         [] message.fn = "RemoveMapValue" ->
              remove_request_header_value(info, message.key)
         [] message.fn = "SetMapPairs" ->
              set_request_headers(info, message.value)
         [] OTHER -> info

\* ProxyWasmHost::command
command(st, message) ==
  IF st.version \in {"V1", "V2a"}
    THEN {Outcome([st EXCEPT !.additional_info =
                                IF @ = None THEN None ELSE Some(ApplyEdit(@[1], message)),
                             !.sent = @ + 1, !.out = Append(@, message)],
                  Ok(EmptyBytes))}
    ELSE Then(request_reply(st, message), LAMBDA o : {Outcome(o.st, Ok(EmptyBytes))})

\* Proxy::proxy_get_header_map_value for the two maps a Proxy passes on
proxy_get_header_map_value(st, map_type, key) ==
  request_reply(st, Msg("GetMapValue", map_type, key, EmptyBytes))

\* std::str::from_utf8 succeeds
IsUtf8(bytes) == bytes # <<"0xFF">>

\* ip.parse::<IpAddr>() succeeds
IsIpAddr(bytes) == bytes = <<"a">>

\* what geo.lookup_country finds
Countries == {EmptyBytes, <<"LU">>}

\* a cache that holds nothing
CacheGetNothing(property_cache, path) == None

\* property_cache.get
CacheGet(property_cache, path) == property_cache[path]

\* proxy_get_property past the cache, its result noted among the path's resolutions
Resolved(path, outs) ==
  {IF o.res.tag = "Ok"
     THEN Outcome([o.st EXCEPT !.resolved[path] = Some(o.res.bytes)], o.res)
     ELSE o : o \in outs}

\* a node that never prefixes
Unshielded(shield, value) == value

\* request.host from the X-CDN-Real-Host header: "shield_" goes before it on a node
\* whose role is edge_shield
Shielded(shield, value) == IF shield THEN <<"shield_">> \o value ELSE value

\* Proxy::proxy_get_property
RECURSIVE proxy_get_property(_, _)
proxy_get_property(st, path) ==
  LET cached == CacheGet(st.property_cache, path)
  IN
  IF cached # None
    THEN {Outcome([st EXCEPT !.hits = @ \cup {<<path, cached[1]>>}], Ok(cached[1]))}
  ELSE Resolved(path,
    CASE path = REQUEST_COUNTRY ->
           Then(proxy_get_property(st, REQUEST_X_REAL_IP), LAMBDA ip :
             IF ~IsUtf8(ip.res.bytes)
               THEN {Outcome(ip.st, Err(Utf8Error))}
             ELSE IF IsIpAddr(ip.res.bytes)
               THEN {Outcome(ip.st, Ok(country)) : country \in Countries}
               ELSE {Outcome(ip.st, Err(ParseFailure))})
      [] path = REQUEST_URI ->
           Then(proxy_get_property(st, REQUEST_SCHEME), LAMBDA scheme :
             Then(proxy_get_property(scheme.st, REQUEST_HOST), LAMBDA hst :
               Then(proxy_get_property(hst.st, REQUEST_PATH), LAMBDA pth :
                 {Outcome(pth.st,
                          Ok(scheme.res.bytes \o <<"://">> \o hst.res.bytes \o pth.res.bytes))})))
      [] path = REQUEST_SCHEME ->
           proxy_get_header_map_value(st, "HttpRequestHeaders", "X-Forwarded-Proto")
      [] path = REQUEST_HOST ->
           Then(proxy_get_header_map_value(st, "HttpRequestHeaders", "X-CDN-Real-Host"),
                LAMBDA value :
             LET shielded == Shielded(st.shield, value.res.bytes)
             IN  Then(IF shielded = EmptyBytes
                        THEN request_reply(value.st, GetProperty(path))
                        ELSE {Outcome(value.st, Ok(shielded))},
                      LAMBDA hst :
                        {Outcome([hst.st EXCEPT !.property_cache[path] = Some(hst.res.bytes)],
                                 hst.res)}))
      [] OTHER ->
           Then(request_reply(st, GetProperty(path)), LAMBDA value :
             {Outcome([value.st EXCEPT !.property_cache[path] = Some(value.res.bytes)],
                      value.res)}))

\* a Proxy that takes over the cache of the request before
ProxyWithOldCache(st) == st

\* Proxy::new and OnceCell::new in execute: the request's Proxy
NewProxy(st) ==
  [st EXCEPT !.property_cache = NoProperties]

\* a request begins: serve's loop builds its ProxyWasmHost (v1 and v2 with no
\* AdditionalInfo, v2a with the Entrypoint's) and execute its Proxy
HostNew ==
  /\ ~host.live
  /\ host.requests < MaxHostRequests
  /\ \E v \in {"V1", "V2", "V2a"}, shield \in BOOLEAN,
        info \in {None} \cup {Some(i) : i \in AdditionalInfos} :
       /\ v # "V2a" => info = None
       /\ host' = NewProxy([host EXCEPT
                    !.live = TRUE, !.version = v, !.shield = shield,
                    !.stage = "traceparent", !.lookups = << >>, !.out = << >>,
                    !.additional_info = info, !.sent = 0, !.armed = 0, !.calls = 0,
                    !.requests = @ + 1, !.resolved = NoProperties, !.hits = {},
                    !.issued = IF info = None THEN None ELSE Some(info[1].headers)])
  /\ host_last' = [msg |-> NoMsg, res |-> NoResult]
  /\ UNCHANGED <<connection, plugin, statistics, accepting>>

\* a coordinator that goes on without the lookup
LookupSkipped(message, o, stage) == [host EXCEPT !.stage = stage]

\* a request_reply of handle_request or execute: the module is not running yet
Lookup(message, o, stage) ==
  [host EXCEPT !.stage = stage,
               !.lookups = Append(@, [msg |-> message, asked |-> o.st.sent # host.sent])]

\* handle_request: traceparent(&host), an Err of which is replaced by a nanoid
HostTraceparent ==
  /\ host.live
  /\ host.stage = "traceparent"
  /\ LET message == Msg("GetMapValue", "HttpRequestHeaders", "traceparent", EmptyBytes)
     IN  \E o \in request_reply(host, message) : host' = Lookup(message, o, "properties")
  /\ UNCHANGED <<host_last, connection, plugin, statistics, accepting>>

\* execute: load_properties(..).await?, after which the Proxy is made and the
\* module instantiated and run
HostLoadProperties ==
  /\ host.live
  /\ host.stage = "properties"
  /\ LET message == GetProperty(REQUEST_X_REAL_IP)
     IN  \E o \in request_reply(host, message) :
           host' = Lookup(message, o, IF o.res.tag = "Ok" /\ IsUtf8(o.res.bytes)
                                        THEN "module" ELSE "failed")
  /\ UNCHANGED <<host_last, connection, plugin, statistics, accepting>>

\* the module makes the host call that carries message and has these outcomes
HostCall(message, outs) ==
  /\ host.live
  /\ host.stage = "module"
  /\ host.calls < MaxHostCalls
  /\ \E o \in outs :
       /\ host' = [o.st EXCEPT !.calls = @ + 1]
       /\ host_last' = [msg |-> message, res |-> o.res]
  /\ UNCHANGED <<connection, plugin, statistics, accepting>>

Called == [host EXCEPT !.hits = {}, !.out = << >>]

\* the host as a command with this edit of a header map is issued
Issued(message) ==
  LET key == message.key
      others(headers) == SelectSeq(headers, LAMBDA h : h[1] # key)
  IN  [Called EXCEPT !.issued =
         IF @ = None \/ message.map_type # "HttpRequestHeaders" THEN @
         ELSE CASE message.fn = "AddMapValue" -> Some(Append(@[1], <<key, message.value>>))
                [] message.fn = "ReplaceMapValue" ->
                     Some(Append(others(@[1]), <<key, message.value>>))
                [] message.fn = "RemoveMapValue" -> Some(others(@[1]))
                [] message.fn = "SetMapPairs" -> Some(Deserialize(message.value))]

ModuleGetProperty(path) ==
  HostCall(GetProperty(path), proxy_get_property(Called, path))

ModuleSetProperty(path, value) ==
  HostCall(SetProperty(path, value), command(Called, SetProperty(path, value)))

ModuleGetMapPairs(map_type) ==
  LET message == Msg("GetMapPairs", map_type, "none", EmptyBytes)
  IN  HostCall(message, request_reply(Called, message))

ModuleGetMapValue(map_type, key) ==
  LET message == Msg("GetMapValue", map_type, key, EmptyBytes)
  IN  HostCall(message, proxy_get_header_map_value(Called, map_type, key))

ModuleSetMapPairs(map_type, headers) ==
  LET message == Msg("SetMapPairs", map_type, "none", Serialize(headers))
  IN  HostCall(message, command(Issued(message), message))

ModuleReplaceMapValue(map_type, key, value) ==
  LET message == Msg("ReplaceMapValue", map_type, key, value)
  IN  HostCall(message, command(Issued(message), message))

ModuleRemoveMapValue(map_type, key) ==
  LET message == Msg("RemoveMapValue", map_type, key, EmptyBytes)
  IN  HostCall(message, command(Issued(message), message))

ModuleAddMapValue(map_type, key, value) ==
  LET message == Msg("AddMapValue", map_type, key, value)
  IN  HostCall(message, command(Issued(message), message))

\* the request ends: its store, with the Proxy and the host, is dropped
HostDrop ==
  /\ host.live
  /\ host' = [NoHost EXCEPT !.property_cache = host.property_cache,
                             !.requests = host.requests]
  /\ UNCHANGED <<host_last, connection, plugin, statistics, accepting>>

(***************************************************************************)
(* ProxyWasmExecutor::execute: the exports of the module it calls          *)
(***************************************************************************)
ROOT_CTX_ID == 1
\* the context ids a request carries
ContextIds == {1, 2}
\* what get_typed_func finds under a name: no export, a function of the type asked
\* for, or an export of another type
Exports == {"none", "typed", "mistyped"}
\* a module: _initialize, _start, proxy_on_context_create and the handler's export
Modules == [initialize : Exports, start : Exports, create : Exports, handler : Exports]
\* Handler: its kind, num_headers or body_size, and end_of_stream
Requests == [kind : Handlers, size : {0, 3}, end_of_stream : BOOLEAN]

NoExec ==
  [pc |-> "idle", module |-> [initialize |-> "none", start |-> "none", create |-> "none",
                               handler |-> "none"],
   request |-> [kind |-> "OnLog", size |-> 0, end_of_stream |-> FALSE],
   context_id |-> 0, calls |-> << >>, result |-> "none"]

ExecInit == exec = NoExec

\* the export execute looks up for a request
HandlerExport(request) ==
  CASE request.kind = "OnRequestHeaders" -> "proxy_on_request_headers"
    [] request.kind = "OnResponseHeaders" -> "proxy_on_response_headers"
    [] request.kind = "OnRequestBody" -> "proxy_on_request_body"
    [] request.kind = "OnResponseBody" -> "proxy_on_response_body"
    [] OTHER -> "proxy_on_log"

\* and the arguments it is called with
HandlerArgs(request, context_id) ==
  CASE request.kind \in {"OnRequestHeaders", "OnResponseHeaders"} ->
         <<context_id, request.size, 1>>
    [] request.kind \in {"OnRequestBody", "OnResponseBody"} ->
         <<context_id, request.size, IF request.end_of_stream THEN 1 ELSE 0>>
    [] OTHER -> <<context_id>>

\* func.call_async(..): the export fn has been called and has returned or trapped
CallAsync(e, fn, args, ok) ==
  [e EXCEPT !.calls = Append(@, [fn |-> fn, args |-> args, ok |-> ok])]

\* an execution that goes on to the next step whatever the last one returned
GoOn(e, ok, next) == [e EXCEPT !.pc = next, !.result = IF next = "done" THEN "Ok" ELSE @]

\* the ? after each step: an Err leaves execute at once
Try(e, ok, next) ==
  IF ok THEN [e EXCEPT !.pc = next, !.result = IF next = "done" THEN "Ok" ELSE @]
        ELSE [e EXCEPT !.pc = "done", !.result = "Err"]

\* execute up to the instance: properties, Proxy, store and instantiate_async
Execute ==
  /\ exec.pc = "idle"
  /\ \E module \in Modules, request \in Requests, context_id \in ContextIds,
        ok \in BOOLEAN :
       exec' = Try([NoExec EXCEPT !.module = module, !.request = request,
                                  !.context_id = context_id], ok, "initialize")
  /\ UNCHANGED <<service, wasm, kv>>

\* plugin_initialize: _initialize, else _start, else nothing
PluginInitialize ==
  /\ exec.pc = "initialize"
  /\ IF exec.module.initialize = "typed"
       THEN \E ok \in BOOLEAN : exec' = Try(CallAsync(exec, "_initialize", << >>, ok), ok, "root")
       ELSE IF exec.module.start = "typed"
         THEN \E ok \in BOOLEAN : exec' = Try(CallAsync(exec, "_start", << >>, ok), ok, "root")
         ELSE exec' = Try(exec, TRUE, "root")
  /\ UNCHANGED <<service, wasm, kv>>

\* plugin_ctx_create for the root context and then for the request's context
PluginCtxCreate ==
  /\ exec.pc \in {"root", "context"}
  /\ LET root == exec.pc = "root"
         args == IF root THEN <<ROOT_CTX_ID, 0>> ELSE <<exec.context_id, ROOT_CTX_ID>>
         next == IF root THEN "context" ELSE "handler"
     IN  IF exec.module.create = "typed"
           THEN \E ok \in BOOLEAN :
                  exec' = Try(CallAsync(exec, "proxy_on_context_create", args, ok), ok, next)
           ELSE exec' = Try(exec, FALSE, next)
  /\ UNCHANGED <<service, wasm, kv>>

\* the handler's export under tokio::time::timeout: it returns, traps or is cut off
HandlerCall ==
  /\ exec.pc = "handler"
  /\ IF exec.module.handler = "typed"
       THEN \E outcome \in {"Ok", "Trap", "Elapsed"} :
              exec' = Try(CallAsync(exec, HandlerExport(exec.request),
                                    HandlerArgs(exec.request, exec.context_id),
                                    outcome = "Ok"),
                          outcome = "Ok", "done")
       ELSE exec' = Try(exec, FALSE, "done")
  /\ UNCHANGED <<service, wasm, kv>>

\* execute has returned: the store and the instance are dropped
ExecDrop ==
  /\ exec.pc = "done"
  /\ exec' = NoExec
  /\ UNCHANGED <<service, wasm, kv>>

(***************************************************************************)
(* host/mod.rs, host/secret.rs: the host functions the linker gives the    *)
(* module, and the module's linear memory                                  *)
(***************************************************************************)
\* the pointers a module passes and its allocator returns: before the memory,
\* inside it, across its end and at its end
Pointers == {0 - 4, 0, 8, MemSize - 2, MemSize}
\* the sizes it passes
Sizes == {0 - 1, 0, 4}
\* what allocate returns: Err (no allocator export, or its call fails) or an offset
Allocations == {None} \cup {Some(p) : p \in Pointers}

\* the range [ptr, ptr + len) lies in the linear memory: what Memory::write,
\* <[u8]>::get and the slice index each check in their own way
InRange(ptr, len) == ptr >= 0 /\ len >= 0 /\ ptr + len <= MemSize

\* what a call of a host function does: the status it returns to the module (or
\* "panic": an index out of range unwinds through the call) and the ranges written
Returned(status, writes) == [status |-> status, writes |-> writes]

NoArgs ==
  [memory |-> TRUE, in_ptr |-> 0, in_size |-> 0, host |-> "Ok", len |-> 0,
   alloc |-> None, out_data |-> 0, out_size |-> 0]

NoCall == [fn |-> "none", args |-> NoArgs, res |-> Returned("none", {})]

WasmInit == wasm = NoCall

\* get_mem_data(caller, data, size) is Ok
get_mem_data(a) == a.memory /\ InRange(a.in_ptr, a.in_size)

\* mem.data_mut(..)[ptr..ptr + 4].copy_from_slice(..) for each of the out-pointers in
\* turn, and then the Ok
CopyToOutPointers(writes, ptrs) ==
  IF ptrs = << >> THEN Returned("Ok", writes)
  ELSE IF ~InRange(ptrs[1], 4) THEN Returned("panic", writes)
  ELSE IF Len(ptrs) = 1 THEN Returned("Ok", writes \cup {<<ptrs[1], 4>>})
  ELSE IF ~InRange(ptrs[2], 4) THEN Returned("panic", writes \cup {<<ptrs[1], 4>>})
  ELSE Returned("Ok", writes \cup {<<ptrs[1], 4>>, <<ptrs[2], 4>>})

\* the tail of a function that returns bytes: allocate, the memory export, mem.write
\* at the offset (its Err returned as write_error), the out-pointers
ReturnBytes(a, len, write_error, ptrs) ==
  IF a.alloc = None THEN Returned("InvalidMemoryAccess", {})
  ELSE IF ~a.memory THEN Returned("InvalidMemoryAccess", {})
  ELSE IF ~InRange(a.alloc[1], len) THEN Returned(write_error, {})
  ELSE CopyToOutPointers({<<a.alloc[1], len>>}, ptrs)

\* proxy_log: a function that reads one (ptr, size) range
proxy_log(a) ==
  IF ~get_mem_data(a) THEN Returned("InvalidMemoryAccess", {})
  ELSE Returned(a.host, {})

\* proxy_get_header_map_pairs
proxy_get_header_map_pairs(a) ==
  IF a.host = "BadArgument" THEN Returned("BadArgument", {})
  ELSE IF a.host # "Ok" THEN Returned(a.host, {})
  ELSE ReturnBytes(a, a.len, "InvalidMemoryAccess", <<a.out_data, a.out_size>>)

\* proxy_get_effective_at_secret
proxy_get_effective_at_secret(a) ==
  IF ~get_mem_data(a) THEN Returned("InvalidMemoryAccess", {})
  ELSE IF a.host # "Ok" THEN Returned(a.host, {})
  ELSE ReturnBytes(a, a.len, "InternalFailure", <<a.out_data, a.out_size>>)

\* proxy_get_current_time_nanoseconds
proxy_get_current_time_nanoseconds(a) ==
  IF a.host # "Ok" THEN Returned("InternalFailure", {})
  ELSE IF ~a.memory THEN Returned("InvalidMemoryAccess", {})
  ELSE IF ~InRange(a.out_data, 8) THEN Returned("InvalidMemoryAccess", {})
  ELSE Returned("Ok", {<<a.out_data, 8>>})

\* Proxy::proxy_set_tick_period_milliseconds
set_tick_period == Err([variant |-> "Unimplemented", from |-> "none"])

\* proxy_set_tick_period_milliseconds, the function of the linker
proxy_set_tick_period_milliseconds(a) ==
  IF set_tick_period.tag # "Ok" THEN Returned("InternalFailure", {})
  ELSE ReturnBytes(a, 8, "InvalidMemoryAccess", <<a.out_data>>)

\* the module calls one of these functions
WasmCall(fn, a, res) ==
  /\ wasm = NoCall
  /\ wasm' = [fn |-> fn, args |-> a, res |-> res]
  /\ UNCHANGED <<service, exec, kv>>

\* the module goes on with what the function returned
WasmReturn ==
  /\ wasm.fn # "none"
  /\ wasm.res.status # "panic"
  /\ wasm' = NoCall
  /\ UNCHANGED <<service, exec, kv>>

CallLog ==
  \E memory \in BOOLEAN, ptr \in Pointers, size \in Sizes, status \in {"Ok", "InternalFailure"} :
    LET a == [NoArgs EXCEPT !.memory = memory, !.in_ptr = ptr, !.in_size = size,
                            !.host = status]
    IN  WasmCall("proxy_log", a, proxy_log(a))

CallGetHeaderMapPairs ==
  \E memory \in BOOLEAN, status \in {"Ok", "BadArgument", "NotFound"}, len \in {0, 4},
     alloc \in Allocations, out_data \in Pointers, out_size \in Pointers :
    LET a == [NoArgs EXCEPT !.memory = memory, !.host = status, !.len = len,
                            !.alloc = alloc, !.out_data = out_data, !.out_size = out_size]
    IN  WasmCall("proxy_get_header_map_pairs", a, proxy_get_header_map_pairs(a))

CallGetEffectiveAtSecret ==
  \E ptr \in {0, MemSize}, status \in {"Ok", "BadArgument", "NotFound", "InternalFailure"},
     len \in {0, 4}, alloc \in Allocations, out_data \in Pointers, out_size \in Pointers :
    LET a == [NoArgs EXCEPT !.in_ptr = ptr, !.in_size = 4, !.host = status, !.len = len,
                            !.alloc = alloc, !.out_data = out_data, !.out_size = out_size]
    IN  WasmCall("proxy_get_effective_at_secret", a, proxy_get_effective_at_secret(a))

CallGetCurrentTime ==
  \E memory \in BOOLEAN, status \in {"Ok", "InternalFailure"}, out_data \in Pointers :
    LET a == [NoArgs EXCEPT !.memory = memory, !.host = status, !.out_data = out_data]
    IN  WasmCall("proxy_get_current_time_nanoseconds", a,
                 proxy_get_current_time_nanoseconds(a))

CallSetTickPeriod ==
  \E memory \in BOOLEAN, alloc \in Allocations, out_data \in Pointers :
    LET a == [NoArgs EXCEPT !.memory = memory, !.alloc = alloc, !.out_data = out_data,
                            !.host = "Unimplemented"]
    IN  WasmCall("proxy_set_tick_period_milliseconds", a,
                 proxy_set_tick_period_milliseconds(a))

(***************************************************************************)
(* host/key_value.rs: the list a scan, zrange or zscan returns to the       *)
(* module, serialized into one byte vector                                  *)
(***************************************************************************)
\* a byte string of n zero bytes
Zeros(n) == [i \in 1..n |-> 0]

\* the byte strings a store returns: every string of up to MaxElem bytes over three
\* byte values, 0x00 among them, and a long one
Elements ==
  UNION {[1..n -> {0, 7, 255}] : n \in 0..MaxElem} \cup {Zeros(LongLen)}

\* the lists of up to MaxList of them
Lists == UNION {[1..n -> Elements] : n \in 0..MaxList}

NoList == [called |-> FALSE, list |-> << >>, bytes |-> << >>]

KvInit == kv = NoList

\* i32::to_le_bytes of a length, which `as i32` leaves as it is below 2^31
to_le_bytes(n) ==
  <<n % 256, (n \div 256) % 256, (n \div 65536) % 256, (n \div 16777216) % 256>>

\* for value in &list { bytes.extend_from_slice(&(value.len() as i32).to_le_bytes()) }
RECURSIVE ExtendSizes(_, _)
ExtendSizes(bytes, list) ==
  IF list = << >> THEN bytes
  ELSE ExtendSizes(bytes \o to_le_bytes(Len(Head(list))), Tail(list))

\* the values one after the other, with nothing between them
RECURSIVE Unterminated(_, _)
Unterminated(bytes, list) ==
  IF list = << >> THEN bytes
  ELSE Unterminated(bytes \o Head(list), Tail(list))

\* for value in list { bytes.extend(value); bytes.push(0) }
RECURSIVE ExtendValues(_, _)
ExtendValues(bytes, list) ==
  IF list = << >> THEN bytes
  ELSE ExtendValues(bytes \o Head(list) \o <<0>>, Tail(list))

\* fold(4, |size, v| size + v.len() + 5): the capacity the vector is made with
RECURSIVE with_capacity(_)
with_capacity(list) ==
  IF list = << >> THEN 4 ELSE with_capacity(Tail(list)) + Len(Head(list)) + 5

serialize_list(list) ==
  ExtendValues(ExtendSizes(to_le_bytes(Len(list)), list), list)

\* a host function hands the list the store returned to serialize_list
KvSerialize ==
  /\ kv = NoList
  /\ \E list \in Lists :
       kv' = [called |-> TRUE, list |-> list, bytes |-> serialize_list(list)]
  /\ UNCHANGED <<service, exec, wasm>>

\* the host function has copied the bytes to the module and returns
KvReturn ==
  /\ kv.called
  /\ kv' = NoList
  /\ UNCHANGED <<service, exec, wasm>>

(***************************************************************************)
(* Specifications                                                          *)
(***************************************************************************)
Init ==
  /\ conn = "handshake"
  /\ version = "none"
  /\ sup = NoSup
  /\ chan = << >>
  /\ nachan = << >>
  /\ reply_handlers = [r \in RequestIds |-> 0]
  /\ task = [r \in RequestIds |-> IdleTask]
  /\ wire = [r \in RequestIds |-> NoWire]
  /\ env \in {[detail |-> d, next |-> 1, unsol |-> 0, offered |-> << >>, reply |-> << >>,
                why |-> "none"] : d \in BOOLEAN}
  /\ StatsInit
  /\ HostInit
  /\ ExecInit
  /\ WasmInit
  /\ KvInit
  /\ AcceptInit

TaskNext(r) ==
  \/ TaskStart(r)
  \/ TaskLoadProperties(r)
  \/ ModuleRequestReply(r)
  \/ ModuleCommand(r)
  \/ ModuleSendLocalResponse(r)
  \/ ModuleReturn(r)
  \/ ModuleFail(r)
  \/ Tick(r)
  \/ RequestReplyTimeout(r)
  \/ RequestReplyRecvError(r)
  \/ TaskSendNextAction(r)

SidecarNext ==
  \/ Handshake
  \/ SupRead
  \/ SupSendCommand
  \/ SupSendNextAction
  \/ V2ReadEntrypoint
  \/ V2SendCommand
  \/ V2ReadResponse
  \/ V2SendNextAction
  \/ \E r \in RequestIds : TaskNext(r)

Next == SidecarNext \/ ProxyReadHandshake \/ Shutdown

Spec == Init /\ [][Next]_vars

\* The serve loops and the handler tasks under fair scheduling: time passes and a
\* timeout that has expired fires (tokio's timer), a select arm that stays ready is
\* taken (tokio::select! polls its arms in random order), and a sender that waits
\* for room in a channel gets it in turn (tokio's mpsc queues its senders)
FairSpec ==
  /\ Spec
  /\ WF_vars(SupSendCommand)
  /\ WF_vars(SupSendNextAction)
  /\ \A r \in RequestIds :
       /\ WF_vars(Tick(r))
       /\ WF_vars(RequestReplyTimeout(r))
       /\ WF_vars(RequestReplyRecvError(r))
       /\ SF_vars(TaskSendNextAction(r))

(***************************************************************************)
(* The stats cache: get_stats_row, called by handle_request for each        *)
(* request with the request id its traceparent header gave                  *)
(***************************************************************************)

StatsNext ==
  \/ \E handler \in Handlers, end_of_stream \in BOOLEAN, request_id \in Traceparents :
       GetStatsRow(handler, end_of_stream, request_id)
  \/ StatsTick

StatsSpec == Init /\ [][StatsNext]_vars

\* get_stats_row of the handler tasks, side by side
StatsTaskNext ==
  \E t \in StatsTasks :
    \/ \E handler \in Handlers, end_of_stream \in BOOLEAN, request_id \in Traceparents :
         StatsGet(t, handler, end_of_stream, request_id)
    \/ StatsInvalidate(t)
    \/ StatsNewRow(t)
    \/ StatsInsert(t)
    \/ StatsLeave(t)

StatsTaskSpec == Init /\ [][StatsTaskNext]_vars

(***************************************************************************)
(* One request's host under the host calls of its module                   *)
(***************************************************************************)

HostNext ==
  \/ HostNew
  \/ HostTraceparent
  \/ HostLoadProperties
  \/ \E path \in PropertyPaths : ModuleGetProperty(path)
  \/ \E path \in {REQUEST_PATH}, value \in {<<"b">>} : ModuleSetProperty(path, value)
  \/ \E map_type \in MapTypes : ModuleGetMapPairs(map_type)
  \/ \E map_type \in MapTypes, key \in HeaderNames : ModuleGetMapValue(map_type, key)
  \/ \E map_type \in MapTypes, headers \in SeqsUpTo(HeaderNames \X HeaderValues, 1) :
       ModuleSetMapPairs(map_type, headers)
  \/ \E map_type \in MapTypes, key \in HeaderNames, value \in HeaderValues :
       ModuleReplaceMapValue(map_type, key, value)
  \/ \E map_type \in MapTypes, key \in HeaderNames : ModuleRemoveMapValue(map_type, key)
  \/ \E map_type \in MapTypes, key \in HeaderNames, value \in HeaderValues :
       ModuleAddMapValue(map_type, key, value)
  \/ HostDrop

HostSpecInit ==
  /\ Init
  /\ env.detail

HostSpec == HostSpecInit /\ [][HostNext]_vars

(***************************************************************************)
(* The accept loop and its connections                                     *)
(***************************************************************************)

AcceptNext ==
  \/ \E c \in ConnIds : AcceptOk(c)
  \/ AcceptErr
  \/ CancelDropped
  \/ \E c \in ConnIds : ConnHandshake(c)
  \/ \E c \in ConnIds : ConnServe(c)
  \/ \E c \in ConnIds : ConnDecodeError(c)

AcceptSpec == HostSpecInit /\ [][AcceptNext]_vars

\* the executor alone
ExecNext ==
  \/ Execute
  \/ PluginInitialize
  \/ PluginCtxCreate
  \/ HandlerCall
  \/ ExecDrop

ExecSpec == HostSpecInit /\ [][ExecNext]_vars

\* the host functions alone
WasmNext ==
  \/ CallLog
  \/ CallGetHeaderMapPairs
  \/ CallGetEffectiveAtSecret
  \/ CallGetCurrentTime
  \/ CallSetTickPeriod
  \/ WasmReturn

WasmSpec == HostSpecInit /\ [][WasmNext]_vars

\* serialize_list alone
KvNext == KvSerialize \/ KvReturn

KvSpec == HostSpecInit /\ [][KvNext]_vars

\* serve_v2 under the same scheduling: its loop takes a command that is queued and
\* joins a handler that has ended; a read waits for the proxy and is under no
\* fairness
V2FairSpec ==
  /\ FairSpec
  /\ WF_vars(V2SendCommand)
  /\ WF_vars(V2SendNextAction)

(***************************************************************************)
(* Properties                                                              *)
(***************************************************************************)

\* C1: on a v1 or v2a connection no request has two NextAction frames written, and
\* while the connection is open every accepted request has exactly one NextAction
\* that is still to be produced by its running handler, queued for the stream, or
\* written; every message put on the outbound channel is put there by the task of
\* the request whose id it carries, and a frame that awaits a reply is written
\* under that id and registers its sender under it.
C1ExactlyOneNextAction ==
  /\ [](version \in {"V1", "V2a"} =>
          \A r \in RequestIds :
            /\ wire[r].na <= 1
            /\ (conn = "serving" /\ task[r].pc # "idle") =>
                 (IF InFlight(r) THEN 1 ELSE 0)
                 + Cardinality({i \in DOMAIN chan : chan[i].rid = r /\ chan[i].op = "Response"})
                 + Cardinality({i \in DOMAIN nachan : nachan[i].rid = r})
                 + wire[r].na = 1)
  /\ [][/\ Len(chan') = Len(chan) + 1 =>
             LET m == chan'[Len(chan')] IN
               /\ task'[m.rid] # task[m.rid]
               /\ \A q \in RequestIds \ {m.rid} : task'[q] = task[q]
        /\ \A r \in RequestIds :
             (version \in {"V1", "V2a"} /\ wire'[r].aw = wire[r].aw + 1) =>
               /\ Head(chan).rid = r
               /\ Head(chan).reply # 0
               /\ reply_handlers'[r] = Head(chan).reply]_vars

\* both requests of a v2a connection made host calls and have their NextAction
C1Witness ==
  /\ conn = "serving"
  /\ version = "V2a"
  /\ \A r \in RequestIds : wire[r].na = 1 /\ wire[r].aw >= 1

\* C2: in v1 and v2a, with a proxy that sends no Response but in answer to a call,
\* a result made from the Response that answers call N of a request is the result of
\* call N of that request.
C2NthResponseToNthCall ==
  (version \in {"V1", "V2a"} /\ env.unsol = 0) =>
    \A r \in RequestIds :
      task[r].last.resp.ans # 0 => task[r].last.resp.ans = task[r].call

\* C3: after a Handshake that offers the list V, the negotiated version is the first
\* element of V that is supported; if none is, the connection is closed and no
\* request has been accepted.
C3FirstOfferedVersion ==
  env.offered # << >> =>
    LET V == env.offered[1]
        supported == {i \in DOMAIN V : V[i] \in SUPPORTED_VERSIONS}
    IN  IF supported = {}
          THEN conn = "closed" /\ \A r \in RequestIds : task[r].pc = "idle"
          ELSE version = VersionOf(V[CHOOSE i \in supported : \A j \in supported : i <= j])

\* C4: in v1 and v2a a step that reads a Response leaves the connection open and the
\* channels alone, removes the entry of the Response's id from the correlation table
\* and touches no task but the one of that id; that task is resumed only if the table
\* held the sender of the call it is waiting in, and is left alone if the table held
\* nothing for the id.
C4OneResponsePerCall ==
  [][(/\ conn = "serving"
      /\ version \in {"V1", "V2a"}
      /\ \/ env'.unsol # env.unsol
         \/ \E r \in RequestIds : wire'[r].ans # wire[r].ans) =>
       /\ conn' = "serving"
       /\ UNCHANGED <<chan, nachan>>
       /\ \E r \in RequestIds :
            /\ \A q \in RequestIds : wire'[q].ans # wire[q].ans => q = r
            /\ reply_handlers' = [reply_handlers EXCEPT ![r] = 0]
            /\ \A q \in RequestIds \ {r} : task'[q] = task[q]
            /\ IF reply_handlers[r] = 0
                 THEN task'[r] = task[r]
                 ELSE \/ task'[r] = task[r]
                      \/ /\ task[r].pc = "wait"
                         /\ task[r].call = reply_handlers[r]
                         /\ task'[r].pc # "wait"]_vars

\* an unsolicited Response was read and found no waiter, the first call of a request
\* got its own Response and left the table empty, and the connection is open
C4Witness ==
  /\ conn = "serving"
  /\ version \in {"V1", "V2a"}
  /\ env.unsol = 1
  /\ \E r \in RequestIds :
       /\ task[r].call = 1
       /\ task[r].last.arm = "reply"
       /\ task[r].last.resp.ans = 1
       /\ reply_handlers[r] = 0

\* C5: a call that waits for the proxy, with the sender of its reply still held, has
\* a timeout running that expires at 200 ms;
\* a result of the timeout arm is made only once the 200 ms have passed and is Ok
\* with no bytes, a result made from a Response with status Ok is Ok with the
\* Response's bytes, and one made from any other status is the Err of
\* HostError::from of that status.
C5TimeoutAndStatus ==
  /\ [](\A r \in RequestIds :
          LET res == task[r].last IN
            /\ res.arm = "timeout" => res.tag = "Ok" /\ res.bytes = EmptyBytes
            /\ (res.arm = "reply" /\ res.resp.status = "Ok") =>
                 res.tag = "Ok" /\ res.bytes = res.resp.value
            /\ (res.arm = "reply" /\ res.resp.status # "Ok") =>
                 res.tag = "Err" /\ res.err = [variant |-> "from", from |-> res.resp.status]
            /\ task[r].pc = "wait" =>
                 /\ task[r].elapsed <= 200
                 /\ SenderAlive(r) => ENABLED (Tick(r) \/ RequestReplyTimeout(r)))
  /\ [][\A r \in RequestIds :
          (task'[r].last.arm = "timeout" /\ task'[r].last # task[r].last) =>
            task[r].pc = "wait" /\ task[r].elapsed >= 200]_vars

\* a module's call to the proxy has timed out
C5Witness ==
  \E r \in RequestIds :
    /\ task[r].pc = "run"
    /\ task[r].stage = "module"
    /\ task[r].last.arm = "timeout"

\* C6: on a v1 or v2a connection, under fair scheduling, a call that waits for the
\* proxy eventually returns, and a request whose handler has finished eventually has
\* its NextAction written unless the connection closes: whatever the proxy does,
\* and so when it answers nothing.
C6SilentProxyCannotWedge ==
  \A r \in RequestIds :
    /\ (version \in {"V1", "V2a"} /\ task[r].pc = "wait") ~> (task[r].pc # "wait")
    /\ (version \in {"V1", "V2a"} /\ task[r].pc = "finish") ~>
         (wire[r].na = 1 \/ conn = "closed")

\* a request's two lookups went out, the proxy answered nothing, and the request
\* has its NextAction
C6Witness ==
  /\ conn = "serving"
  /\ version \in {"V1", "V2a"}
  /\ env.unsol = 0
  /\ \E r \in RequestIds : wire[r].aw >= 2 /\ wire[r].ans = 0 /\ wire[r].na = 1

\* C7: on a v2 connection at most one handler is in flight, a request is accepted
\* only when every request before it is done and has its NextAction written, every
\* outbound frame awaits a reply, and at most one outbound frame is unanswered: while
\* the connection is open the server is then reading the stream for its Response.
C7V2Serial ==
  version = "V2" =>
    /\ Cardinality({r \in RequestIds : InFlight(r)}) <= 1
    /\ \A r \in RequestIds :
         /\ task[r].pc # "idle" =>
              \A q \in 1..(r - 1) : task[q].pc = "done" /\ wire[q].na = 1
         /\ wire[r].aw = wire[r].hf
         /\ wire[r].hf - wire[r].ans \in {0, 1}
         /\ (conn = "serving" /\ wire[r].hf > wire[r].ans) =>
              sup.pc = "await" /\ sup.rid = r

\* a second request of a v2 connection has made a host call
C7Witness ==
  /\ version = "V2"
  /\ conn = "serving"
  /\ \E r \in RequestIds : r > 1 /\ wire[r - 1].ans >= 1 /\ wire[r].hf >= 1

\* C8: when the handler has returned, the request's action is the status_code if one
\* was set and the handler returned other than CONTINUE, CONTINUE if one was set and
\* the handler returned CONTINUE, and what the handler returned if none was set,
\* where OnLog counts as returning CONTINUE.
C8FinalAction ==
  \A r \in RequestIds :
    LET t == task[r]
        returned == IF t.handler = "OnLog" THEN 0 ELSE t.ret
    IN  (t.pc = "finish" /\ t.instantiated /\ t.cause = "none") =>
          /\ (t.status_code # << >> /\ returned # 0) => t.next_action = t.status_code[1]
          /\ (t.status_code # << >> /\ returned = 0) => t.next_action = 0
          /\ t.status_code = << >> => t.next_action = returned

\* a handler set a status_code and returned other than CONTINUE
C8Witness ==
  \E r \in RequestIds :
    /\ task[r].pc = "finish"
    /\ task[r].cause = "none"
    /\ task[r].status_code # << >>
    /\ task[r].ret # CONTINUE
    /\ task[r].next_action = task[r].status_code[1]

\* C9: when execution has failed, the request's action and the fail reason given
\* to its stats row are those of the table, by root cause.
C9ErrorTable ==
  \A r \in RequestIds :
    LET t == task[r] IN
      (t.pc = "finish" /\ t.cause # "none") =>
        <<t.next_action, t.stats>> =
          CASE t.cause = "Exit0" -> <<CONTINUE, "SUCCESS">>
            [] t.cause = "ExitNonZero" -> <<EXECUTION_PANIC, "OTHER">>
            [] t.cause = "TrapInterrupt" -> <<EXECUTION_TIMEOUT, "TIMEOUT">>
            [] t.cause = "TrapUnreachable" -> <<OUT_OF_MEMORY, "OOM">>
            [] t.cause = "TrapOther" -> <<EXECUTION_PANIC, "OTHER">>
            [] t.cause = "Elapsed" -> <<EXECUTION_TIMEOUT, "TIMEOUT">>
            [] t.cause = "Other" -> <<INTERNAL_ERROR, "OTHER">>

\* a handler's deadline expired while it waited for the proxy
C9Witness ==
  \E r \in RequestIds :
    /\ task[r].pc = "finish"
    /\ task[r].cause = "Elapsed"
    /\ task[r].call >= 3
    /\ task[r].next_action = EXECUTION_TIMEOUT

\* C10: a request for an unknown, Draft, Disabled or RateLimited application ends
\* with NOT_FOUND, NOT_ACCEPTABLE, NOT_ACCEPTABLE or TOO_MANY_REQUESTS, without a
\* module instance, a stats row, a host call or a frame on the channel or the stream;
\* only an Enabled application gets an instance or a stats row.
C10LifecycleShortCircuit ==
  \A r \in RequestIds :
    LET t == task[r] IN
      /\ (t.pc = "finish" /\ t.app \in {"Unknown", "Draft", "Disabled", "RateLimited"}) =>
           /\ t.next_action = CASE t.app = "Unknown" -> NOT_FOUND
                                [] t.app = "RateLimited" -> TOO_MANY_REQUESTS
                                [] OTHER -> NOT_ACCEPTABLE
           /\ ~t.instantiated
           /\ t.stats = "none"
           /\ t.call = 0
           /\ wire[r].hf = 0
           /\ \A i \in DOMAIN chan : chan[i].rid # r
      /\ (t.instantiated \/ t.stats # "none") => t.app = "Enabled"

\* a request for a RateLimited application has ended
C10Witness ==
  \E r \in RequestIds :
    /\ task[r].pc = "finish"
    /\ task[r].app = "RateLimited"
    /\ task[r].next_action = TOO_MANY_REQUESTS

\* C11: a request's status_code cell is empty until its module runs and, once it
\* holds a value, holds that value for the rest of the request; a
\* proxy_send_local_response that finds the cell empty stores its status and returns
\* Ok, one that finds it full returns InternalFailure and leaves the value alone.
C11StatusCodeSetOnce ==
  /\ [](\A r \in RequestIds : ~task[r].instantiated => task[r].status_code = << >>)
  /\ [][\A r \in RequestIds :
          /\ (task[r].status_code # << >> /\ task'[r].pc \notin {"idle", "done", "joinable"}) =>
               task'[r].status_code = task[r].status_code
          /\ (task[r].pc = "run" /\ task'[r].pc = "run"
              /\ task'[r].calls = task[r].calls + 1 /\ task'[r].last.arm = "local") =>
               IF task[r].status_code = << >>
                 THEN /\ Len(task'[r].status_code) = 1
                      /\ task'[r].last.tag = "Ok"
                 ELSE /\ task'[r].status_code = task[r].status_code
                      /\ task'[r].last.tag = "Err"
                      /\ task'[r].last.err = [variant |-> "InternalFailure", from |-> "none"]]_vars

\* a second proxy_send_local_response of a request has failed
C11Witness ==
  \E r \in RequestIds :
    /\ task[r].pc = "run"
    /\ task[r].calls = 2
    /\ task[r].status_code # << >>
    /\ task[r].last.arm = "local"
    /\ task[r].last.tag = "Err"

\* C12: when get_stats_row is called for a body chunk, it hands out the row of the
\* last body chunk with the same request id if that chunk did not end the stream and
\* came less than the idle time ago, and a row made for this call if that chunk ended
\* the stream or there was none; afterwards the cache holds the row under the request
\* id if the chunk did not end the stream, and no row that a get would find if it did.
C12BodyChunksShareRow ==
  [][\A k \in Traceparents :
       (stats_last'[k].since = 0 /\ stats_last'[k].row # 0
        /\ (stats_last'[k] # stats_last[k] \/ stats_cache'[k] # stats_cache[k])) =>
         /\ (stats_last[k].row # 0 /\ ~stats_last[k].eos /\ stats_last[k].since < STATS_IDLE_MS) =>
              stats_last'[k].row = stats_last[k].row
         /\ (stats_last[k].row = 0 \/ stats_last[k].eos) =>
              /\ stats_last'[k].row = stats_rows + 1
              /\ stats_rows' = stats_rows + 1
         /\ IF stats_last'[k].eos
              THEN stats_cache'[k].row = 0 \/ stats_cache'[k].idle >= STATS_IDLE_MS
              ELSE stats_cache'[k] = [row |-> stats_last'[k].row, idle |-> 0]]_vars

\* three chunks of one stream got one row, and the last, which ended the stream, took
\* it out of the cache
C12Witness ==
  \E k \in Traceparents :
    /\ stats_last[k] = [row |-> 1, eos |-> TRUE, since |-> 0, n |-> 3]
    /\ stats_cache[k].row = 0
    /\ stats_rows = 1

\* C13: while a request runs, its property cache holds for a path nothing or the
\* bytes the request's last successful resolution of the path gave, and so does every
\* answer a call takes from the cache; a proxy_get_property whose path is cached
\* returns those bytes and neither sends a frame nor arms a timeout; and the cache of
\* a request that begins is empty.
C13PropertyCache ==
  /\ [](host.live =>
          /\ \A p \in PropertyPaths : host.property_cache[p] \in {None, host.resolved[p]}
          /\ \A h \in host.hits : host.resolved[h[1]] = Some(h[2]))
  /\ [][/\ (host'.calls = host.calls + 1 /\ host_last'.msg.fn = "GetProperty"
            /\ host.property_cache[host_last'.msg.key] # None) =>
             /\ host.resolved[host_last'.msg.key] # None
             /\ host_last'.res = Ok(host.resolved[host_last'.msg.key][1])
             /\ host'.sent = host.sent
             /\ host'.armed = host.armed
        /\ host'.requests = host.requests + 1 => host'.property_cache = NoProperties]_vars

\* the second request's module has asked for a property twice: the first call went to
\* the proxy and the second was answered from the cache
C13Witness ==
  /\ host.live
  /\ host.requests = 2
  /\ host.additional_info = None
  /\ host.calls = 2
  /\ host.sent = 1
  /\ host_last.msg = GetProperty(REQUEST_PATH)
  /\ host.hits = {<<REQUEST_PATH, <<"a">>>>}
  /\ host_last.res = Ok(<<"a">>)

\* C14: a call of a request that has an AdditionalInfo sends no frame and arms no
\* timeout when it is GetMapPairs of the request headers, which returns the headers'
\* serialized form, GetMapValue of a request header, which returns the header's value
\* or NotFound if it has none, or proxy_get_property of a path the AdditionalInfo
\* binds, which returns the bound value; proxy_get_property of a path of the default
\* arm that is neither bound nor cached sends one frame and arms one timeout.
C14AdditionalInfoAnswers ==
  [][(host'.calls = host.calls + 1 /\ host.additional_info # None) =>
       LET info == host.additional_info[1]
           message == host_last'.msg
           res == host_last'.res
           quiet == host'.sent = host.sent /\ host'.armed = host.armed
           named == SelectSeq(info.headers, LAMBDA h : h[1] = message.key)
       IN  /\ (message.fn = "GetMapPairs" /\ message.map_type = "HttpRequestHeaders") =>
                quiet /\ res = Ok(Serialize(info.headers))
           /\ (message.fn = "GetMapValue" /\ message.map_type = "HttpRequestHeaders") =>
                /\ quiet
                /\ res = IF named = << >> THEN Err(NotFound) ELSE Ok(named[1][2])
           /\ (message.fn = "GetProperty" /\ message.key \in {REQUEST_X_REAL_IP, REQUEST_PATH}) =>
                IF info.properties[message.key] # None
                  THEN quiet /\ res = Ok(info.properties[message.key][1])
                  ELSE host.property_cache[message.key] = None =>
                         /\ host'.sent = host.sent + 1
                         /\ host'.armed = host.armed + 1]_vars

\* a request with an AdditionalInfo that does not bind request.path: its module has
\* asked for that property, which took a round trip, and then for a header that is not
\* there, which took none
C14Witness ==
  /\ host.additional_info # None
  /\ host.calls = 2
  /\ host.sent = 1
  /\ host.armed = 1
  /\ host.resolved[REQUEST_PATH] # None
  /\ host_last.msg = Msg("GetMapValue", "HttpRequestHeaders", "X-Forwarded-Proto", EmptyBytes)
  /\ host_last.res = Err(NotFound)

\* C15: on a v1 or v2a request that has an AdditionalInfo, its headers are at all
\* times the headers it came with under the AddMapValue, ReplaceMapValue, RemoveMapValue
\* and SetMapPairs commands on the request headers issued so far, in their order; each
\* such command is also sent to the proxy; GetMapPairs and GetMapValue of the request
\* headers answer from the headers so edited; and a command on another map leaves the
\* AdditionalInfo as it is.
C15EditsReachAdditionalInfo ==
  /\ []((host.live /\ host.version \in {"V1", "V2a"} /\ host.additional_info # None) =>
          /\ host.issued # None
          /\ host.additional_info[1].headers = host.issued[1])
  /\ [][(host'.calls = host.calls + 1 /\ host.version \in {"V1", "V2a"}
          /\ host.additional_info # None) =>
           LET message == host_last'.msg
               named == SelectSeq(host.issued[1], LAMBDA h : h[1] = message.key)
           IN  /\ message.fn \in {"AddMapValue", "ReplaceMapValue", "RemoveMapValue", "SetMapPairs"} =>
                    /\ host'.sent = host.sent + 1
                    /\ message.map_type # "HttpRequestHeaders" =>
                         host'.additional_info = host.additional_info
               /\ (message.fn = "GetMapPairs" /\ message.map_type = "HttpRequestHeaders") =>
                    host_last'.res = Ok(Serialize(host.issued[1]))
               /\ (message.fn = "GetMapValue" /\ message.map_type = "HttpRequestHeaders") =>
                    host_last'.res = IF named = << >> THEN Err(NotFound) ELSE Ok(named[1][2])]_vars

\* a request whose AdditionalInfo came with no headers: its module has added two
\* values of one header and then read the header, and got the value added first
C15Witness ==
  /\ host.version = "V2a"
  /\ host.additional_info # None
  /\ host.additional_info[1].properties = NoProperties
  /\ host.additional_info[1].headers =
       << <<"X-Forwarded-Proto", <<"a">>>>, <<"X-Forwarded-Proto", <<"b">>>> >>
  /\ host.calls = 3
  /\ host.sent = 2
  /\ host_last.msg = Msg("GetMapValue", "HttpRequestHeaders", "X-Forwarded-Proto", EmptyBytes)
  /\ host_last.res = Ok(<<"a">>)

\* C16: once a v2a serve loop has read a HostError frame, the connection is closed
\* and its channels are gone, and from then on no frame is read from it and none is
\* written to it: no request, in flight or not, gets a command, a Response or a
\* NextAction on the wire any more.
C16HostErrorIsTerminal ==
  /\ []((version = "V2a" /\ env.why = "HostError") =>
          /\ conn = "closed"
          /\ chan = << >>
          /\ nachan = << >>
          /\ reply_handlers = [r \in RequestIds |-> 0])
  /\ [][(version = "V2a" /\ env'.why = "HostError") =>
           /\ wire' = wire
           /\ env'.next = env.next
           /\ env'.unsol = env.unsol
           /\ conn' = "closed"]_vars

\* a v2a connection that a HostError frame ended while a request, one of whose
\* commands had been written, was waiting for an answer
C16Witness ==
  /\ version = "V2a"
  /\ env.why = "HostError"
  /\ \E r \in RequestIds : task[r].pc = "wait" /\ wire[r].hf >= 1 /\ wire[r].na = 0

\* C17: when the stream of a connection yields a decode error, that connection's
\* serve task ends, the accept loop is as it was and can still take a connection, and
\* every other connection keeps its state, version, correlation table and in-flight
\* requests.
C17DecodeErrorIsLocal ==
  /\ [][\A c \in ConnIds :
          (conns[c].st # "aborted" /\ conns'[c].st = "aborted") =>
            /\ listener' = listener
            /\ \A d \in ConnIds \ {c} : conns'[d] = conns[d]]_vars
  /\ []((listener.cancel /\ \E c \in ConnIds : conns[c].st = "none") =>
          ENABLED (\E c \in ConnIds : AcceptOk(c)))

\* the first connection serves, with a request in flight and its sender registered,
\* while the second, accepted after it, has been aborted by a decode error
C17Witness ==
  /\ conns[1].st = "serving"
  /\ conns[1].table # {}
  /\ conns[2].st = "aborted"

\* C18: on a closed connection no call starts to wait: a request_reply that is issued
\* there, among them one that was waiting for room in the channel, fails with
\* InternalFailure in its send; a call that is waiting when the connection closes, its
\* command queued, registered or written, returns only by the receiver's error, with
\* InternalFailure and no bytes (which ends execute with an error when the call is
\* load_properties'), unless the handler's deadline ends the execution first; and
\* under fair scheduling it does not go on waiting.
C18WaitersFailOnClose ==
  /\ [][\A r \in RequestIds :
          /\ (conn = "closed" /\ task[r].pc # "wait") =>
               /\ task'[r].pc # "wait"
               /\ (task'[r].last # task[r].last /\ task'[r].last.arm \notin {"none", "local"}) =>
                    /\ task'[r].last.arm = "send"
                    /\ task'[r].last.tag = "Err"
                    /\ task'[r].last.err = [variant |-> "InternalFailure", from |-> "none"]
          /\ (conn = "closed" /\ task[r].pc = "wait" /\ task'[r].pc # "wait") =>
               \/ /\ task'[r].pc = "finish"
                  /\ task'[r].cause \in {"Elapsed", "Other"}
               \/ /\ task'[r].last.arm = "recv"
                  /\ task'[r].last.tag = "Err"
                  /\ task'[r].last.bytes = EmptyBytes
                  /\ task'[r].last.err = [variant |-> "InternalFailure", from |-> "none"]]_vars
  /\ \A r \in RequestIds : (conn = "closed" /\ task[r].pc = "wait") ~> (task[r].pc # "wait")

\* a module's call was waiting for its answer when the connection closed, and has
\* returned InternalFailure from the receiver's error
C18Witness ==
  /\ conn = "closed"
  /\ \E r \in RequestIds :
       /\ task[r].pc = "run"
       /\ task[r].stage = "module"
       /\ task[r].last.arm = "recv"
       /\ task[r].last.tag = "Err"

\* C19: as long as the connection task runs, waiting for the Handshake or serving
\* v1, v2 or v2a at any point of its loop, the shutdown signal can end it; the step
\* that takes the signal closes the connection and writes nothing, and after it the
\* connection stays closed, nothing is written for any request and nothing is read.
C19ShutdownWins ==
  /\ [](conn # "closed" => ENABLED Shutdown)
  /\ [](env.why = "shutdown" => conn = "closed" /\ chan = << >> /\ nachan = << >>)
  /\ [][env'.why = "shutdown" =>
          /\ wire' = wire
          /\ env'.next = env.next
          /\ env'.unsol = env.unsol
          /\ version' = version]_vars

\* the shutdown signal has ended a v2 connection while the serve loop was reading
\* the stream for the Response to a command, whose caller then got an error
C19Witness ==
  /\ env.why = "shutdown"
  /\ version = "V2"
  /\ \E r \in RequestIds : wire[r].aw > wire[r].ans /\ task[r].last.arm = "recv"

\* C20: the Handshake reply of a successful negotiation lists one version, the one
\* the connection is served with, and the version of a connection never changes once
\* it is set.
C20ReplyListsChosenVersion ==
  /\ [](env.reply # << >> =>
          /\ Len(env.reply) = 1
          /\ VersionOf(env.reply[1]) = version)
  /\ [][version # "none" => version' = version]_vars

\* C21: accept errors back off exponentially: the sleep after the first accept error
\* is 100 ms, it doubles on each further consecutive error, it never exceeds the
\* configured maximum (config.backoff steps of 100 ms), and the first error after a
\* successful accept sleeps 100 ms again.  listener.delay is the last sleep since
\* the last successful accept (0 when there was none).
C21BackoffIsBounded ==
  [][(listener'.backoff # listener.backoff /\ listener'.delay # 0) =>
       /\ listener'.delay <= ConfigBackoff * 100
       /\ listener'.delay = IF listener.delay = 0
                              THEN 100
                              ELSE Min(2 * listener.delay, ConfigBackoff * 100)]_vars

\* C22 as stated: the outbound messages queued between the handlers and the
\* supervisor (commands and final actions together) never exceed the capacity of the
\* connection's version, and a message leaves a queue only by being written.
C22NoMessageIsDropped ==
  [][/\ Len(chan') + Len(nachan') <= Capacity'
     /\ chan' # chan =>
          \/ Len(chan') = Len(chan) + 1 /\ SubSeq(chan', 1, Len(chan)) = chan
          \/ chan' = Tail(chan) /\ wire' # wire
     /\ nachan' # nachan =>
          \/ Len(nachan') = Len(nachan) + 1 /\ SubSeq(nachan', 1, Len(nachan)) = nachan
          \/ nachan' = Tail(nachan) /\ wire' # wire]_vars

\* C22, amended: each channel alone (the command channel, and serve_v2a's channel of
\* final actions) never holds more than its capacity; a sender that finds its channel
\* full cannot proceed while the supervisor can receive; a message is appended only
\* to a channel with room, and leaves a channel only by being written in its turn or
\* when the serve loop ends and drops the channels with what they still hold.
C22Backpressure ==
  /\ [](/\ Len(chan) <= Capacity
        /\ Len(nachan) <= Capacity
        /\ (conn = "serving" /\ version \in {"V1", "V2a"} /\ ~HasRoom(chan)) =>
             /\ ENABLED SupSendCommand
             /\ \A r \in RequestIds :
                  /\ ~ENABLED ModuleCommand(r)
                  /\ version = "V1" => ~ENABLED TaskSendNextAction(r))
  /\ [][/\ chan' # chan =>
             \/ /\ HasRoom(chan)
                /\ Len(chan') = Len(chan) + 1 /\ SubSeq(chan', 1, Len(chan)) = chan
             \/ chan' = Tail(chan) /\ wire' # wire /\ conn' = "serving"
             \/ chan' = << >> /\ conn' = "closed"
        /\ nachan' # nachan =>
             \/ /\ HasRoom(nachan)
                /\ Len(nachan') = Len(nachan) + 1
                /\ SubSeq(nachan', 1, Len(nachan)) = nachan
             \/ nachan' = Tail(nachan) /\ wire' # wire /\ conn' = "serving"
             \/ nachan' = << >> /\ conn' = "closed"]_vars

\* a v1 handler holds its final action while the channel is full
C22Witness ==
  /\ conn = "serving" /\ version = "V1"
  /\ Len(chan) = Capacity
  /\ \E r \in RequestIds : task[r].pc = "finish"

\* C23: for every handler kind the exports are called in this order: _initialize
\* if it is exported (as a function without parameters and results), else _start if
\* it is, else nothing; proxy_on_context_create(1, 0); proxy_on_context_create(ctx, 1);
\* the handler's export.  No call is made after a call that failed, and the
\* handler's export has returned only after all the calls before it.
C23ExportOrder ==
  LET first == IF exec.module.initialize = "typed" THEN <<[fn |-> "_initialize", args |-> << >>]>>
               ELSE IF exec.module.start = "typed" THEN <<[fn |-> "_start", args |-> << >>]>>
               ELSE << >>
      expected == first \o
                  <<[fn |-> "proxy_on_context_create", args |-> <<1, 0>>],
                    [fn |-> "proxy_on_context_create", args |-> <<exec.context_id, 1>>],
                    [fn |-> HandlerExport(exec.request),
                     args |-> HandlerArgs(exec.request, exec.context_id)]>>
      made == [i \in 1..Len(exec.calls) |->
                 [fn |-> exec.calls[i].fn, args |-> exec.calls[i].args]]
  IN  /\ Len(made) <= Len(expected)
      /\ made = SubSeq(expected, 1, Len(made))
      /\ \A i \in 1..Len(exec.calls) :
           ~exec.calls[i].ok => i = Len(exec.calls) /\ exec.pc = "done" /\ exec.result = "Err"
      /\ exec.result = "Ok" => made = expected

\* a module without _initialize whose _start, both context creations and body
\* handler have run
C23Witness ==
  /\ exec.pc = "done" /\ exec.result = "Ok"
  /\ exec.request.kind = "OnRequestBody"
  /\ exec.context_id = 2
  /\ Len(exec.calls) = 4 /\ exec.calls[1].fn = "_start"

\* C24 as stated: before the module runs the coordinator has asked the proxy for the
\* traceparent header and then for request.x_real_ip, and nothing else; afterwards
\* every host call of the module puts exactly its own message before the proxy.
C24ProxySeesModuleCalls ==
  /\ host.stage = "module" =>
       host.lookups =
         <<[msg |-> Msg("GetMapValue", "HttpRequestHeaders", "traceparent", EmptyBytes),
            asked |-> TRUE],
           [msg |-> GetProperty("request.x_real_ip"), asked |-> TRUE]>>
  /\ (host.live /\ host_last.msg # NoMsg) => host.out = <<host_last.msg>>

\* C24, amended: before the module runs the coordinator has made exactly two
\* request_reply calls, for the traceparent header and then for request.x_real_ip
\* (both reach the proxy unless the request came with an AdditionalInfo), and the
\* module runs only if the second returned Ok.  Afterwards what reaches the proxy is
\* what the module's host calls send, call by call and nothing twice: a command sends
\* exactly its own message; a header read sends its own message or, answered from the
\* AdditionalInfo, none; a property read sends none (cache, AdditionalInfo), its own
\* GetProperty, or the header and property reads the resolver makes for it.
C24LookupsThenModuleMessages ==
  LET m == host_last.msg
      out == host.out
      reads == {Msg("GetMapValue", "HttpRequestHeaders", k, EmptyBytes) : k \in HeaderNames}
                 \cup {GetProperty(p) : p \in PropertyPaths}
  IN  /\ host.stage \in {"module", "failed"} =>
           /\ Len(host.lookups) = 2
           /\ host.lookups[1].msg =
                Msg("GetMapValue", "HttpRequestHeaders", "traceparent", EmptyBytes)
           /\ host.lookups[2].msg = GetProperty("request.x_real_ip")
           /\ host.additional_info = None =>
                host.lookups[1].asked /\ host.lookups[2].asked
      /\ host.calls > 0 => host.stage = "module"
      /\ host.stage \in {"traceparent", "properties", "failed"} => host.sent = 0
      /\ (host.live /\ m # NoMsg) =>
           /\ \A i, j \in 1..Len(out) : i # j => out[i] # out[j]
           /\ Len(out) <= host.sent
           /\ CASE m.fn \in {"SetProperty", "SetMapPairs", "AddMapValue",
                            "ReplaceMapValue", "RemoveMapValue"} -> out = <<m>>
                [] m.fn \in {"GetMapPairs", "GetMapValue"} ->
                     /\ out \in {<< >>, <<m>>}
                     /\ out = << >> =>
                          host.additional_info # None /\ m.map_type = "HttpRequestHeaders"
                [] m.fn = "GetProperty" ->
                     /\ \A i \in 1..Len(out) : out[i] \in reads
                     /\ m.key \in {REQUEST_PATH, REQUEST_X_REAL_IP} => out \in {<< >>, <<m>>}
                [] OTHER -> FALSE

\* a request without AdditionalInfo: both lookups went to the proxy, and the
\* module's read of request.uri then took three messages of its own
C24Witness ==
  /\ host.stage = "module"
  /\ host.additional_info = None
  /\ host.lookups[1].asked /\ host.lookups[2].asked
  /\ host_last.msg = GetProperty(REQUEST_URI)
  /\ host_last.res.tag = "Ok"
  /\ Len(host.out) = 3

\* C25: no host function traps or panics over the pointers a module passes: an input
\* range outside the linear memory, an allocator failure, a failed write of the
\* value or an out-pointer outside the linear memory makes it return
\* InvalidMemoryAccess.
C25BadPointersAreReported ==
  LET a == wasm.args
      reads == wasm.fn \in {"proxy_log", "proxy_get_effective_at_secret"}
      returns == wasm.fn \in {"proxy_get_header_map_pairs", "proxy_get_effective_at_secret"}
      bad_input == reads /\ ~InRange(a.in_ptr, a.in_size)
      bad_output ==
        /\ returns /\ a.host = "Ok" /\ (reads => InRange(a.in_ptr, a.in_size))
        /\ \/ a.alloc = None
           \/ ~InRange(a.alloc[1], a.len)
           \/ ~InRange(a.out_data, 4)
           \/ ~InRange(a.out_size, 4)
      bad_time == /\ wasm.fn = "proxy_get_current_time_nanoseconds"
                  /\ a.host = "Ok" /\ ~InRange(a.out_data, 8)
  IN  /\ wasm.res.status # "panic"
      /\ (bad_input \/ bad_output \/ bad_time) => wasm.res.status = "InvalidMemoryAccess"

\* C30: every call of proxy_set_tick_period_milliseconds returns the status
\* Unimplemented (the integer 12 at the ABI) to the module and writes nothing to its
\* memory.
C30TickPeriodUnimplemented ==
  wasm.fn = "proxy_set_tick_period_milliseconds" =>
    /\ wasm.res.status = "Unimplemented"
    /\ wasm.res.writes = {}

\* C26: proxy_get_property(request.host) reads the X-CDN-Real-Host request header,
\* puts "shield_" before the value on an edge_shield node, and asks the proxy for
\* GetProperty(request.host) only if the value so made is empty; the answer is stored
\* in the property cache, and a read that finds it there sends no message.
C26RequestHost ==
  [][(host'.calls = host.calls + 1 /\ host_last'.msg = GetProperty(REQUEST_HOST)) =>
       LET header == Msg("GetMapValue", "HttpRequestHeaders", "X-CDN-Real-Host", EmptyBytes)
           property == GetProperty("request.host")
           cached == host.property_cache[REQUEST_HOST]
           out == host'.out
           res == host_last'.res
           asked == \E i \in 1..Len(out) : out[i] = property
       IN  IF cached # None
             THEN /\ out = << >>
                  /\ res = Ok(cached[1])
                  /\ host'.property_cache = host.property_cache
             ELSE /\ out \in {<< >>, <<header>>, <<header, property>>, <<property>>}
                  /\ out \in {<< >>, <<property>>} => host.additional_info # None
                  /\ asked => ~host.shield
                  /\ res.tag = "Ok" =>
                       /\ host'.property_cache[REQUEST_HOST] = Some(res.bytes)
                       /\ host.shield =>
                            Len(res.bytes) >= 1 /\ res.bytes[1] = "shield_"
                       /\ (~host.shield /\ ~asked /\ host.additional_info = None) =>
                            res.bytes = <<"a">>
                  /\ res.tag # "Ok" =>
                       host'.property_cache[REQUEST_HOST] = None]_vars

\* a node that is no shield: the first read of request.host found the header empty
\* and asked the proxy, the second read took the answer from the cache
C26Witness ==
  /\ host.live /\ ~host.shield /\ host.additional_info = None
  /\ host.calls = 2 /\ host.sent = 2
  /\ host_last.msg = GetProperty(REQUEST_HOST)
  /\ host.out = << >>
  /\ host.hits = {<<REQUEST_HOST, <<"a">>>>}
  /\ host_last.res = Ok(<<"a">>)

\* C27 as stated, for request.country in the place of every geo property: the IP comes
\* through the resolver, so that two reads of the module in a row never both fetch
\* request.x_real_ip from the proxy; an IP that is no valid address gives
\* ParseFailure; a valid one gives Ok with what the geo lookup found, empty when it
\* found nothing; an Err of the IP lookup is returned as it is.
C27GeoThroughResolver ==
  [][(host'.calls = host.calls + 1 /\ host_last'.msg = GetProperty(REQUEST_COUNTRY)) =>
       LET fetch == GetProperty("request.x_real_ip")
           res == host_last'.res
           ip == host'.property_cache[REQUEST_X_REAL_IP]
       IN  /\ host'.out \in {<< >>, <<fetch>>}
           /\ ~(host.out = <<fetch>> /\ host'.out = <<fetch>>)
           /\ IF ip = None THEN res.tag = "Err" /\ res.err = HostErrorFrom("NotFound")
              ELSE IF IsIpAddr(ip[1]) THEN res.tag = "Ok" /\ res.bytes \in Countries
              ELSE res = Err(ParseFailure)]_vars

\* C27, amended: the IP comes through the resolver, so that a read which finds
\* request.x_real_ip in the property cache sends nothing and one that does not sends
\* exactly GetProperty(request.x_real_ip) (again after a lookup that failed, which is
\* not cached); an IP of valid UTF-8 that is no address gives ParseFailure, one that is
\* no UTF-8 gives Utf8Error; a valid one gives Ok with what the geo lookup found, empty
\* when it found nothing; an Err of the IP lookup is returned as it is; the geo
\* property itself is never cached.
C27GeoThroughCache ==
  [][(host'.calls = host.calls + 1 /\ host_last'.msg = GetProperty(REQUEST_COUNTRY)) =>
       LET fetch == GetProperty("request.x_real_ip")
           res == host_last'.res
           before == host.property_cache[REQUEST_X_REAL_IP]
           ip == host'.property_cache[REQUEST_X_REAL_IP]
       IN  /\ IF before # None
                THEN host'.out = << >> /\ ip = before
                ELSE host'.out = <<fetch>> \/ (host'.out = << >> /\ host.additional_info # None)
           /\ host'.property_cache[REQUEST_COUNTRY] = None
           /\ IF ip = None THEN res.tag = "Err" /\ res.err = HostErrorFrom("NotFound")
              ELSE IF ~IsUtf8(ip[1]) THEN res = Err(Utf8Error)
              ELSE IF IsIpAddr(ip[1]) THEN res.tag = "Ok" /\ res.bytes \in Countries
              ELSE res = Err(ParseFailure)]_vars

\* the module has read request.country twice: the first read fetched the IP, the
\* second took it from the cache, and the geo lookup had no entry for it
C27Witness ==
  /\ host.live /\ host.additional_info = None
  /\ host.calls = 2 /\ host.sent = 1
  /\ host_last.msg = GetProperty(REQUEST_COUNTRY)
  /\ host.out = << >>
  /\ host.property_cache[REQUEST_X_REAL_IP] = Some(<<"a">>)
  /\ host_last.res = Ok(EmptyBytes)

\* C28: on a v1 connection the handler's final action is queued on the outbound
\* channel as a Response with status Empty, four bytes and no reply sender; serve_v1
\* writes it as NextAction(a) with a the i32 handle_request returned; it is not
\* registered in reply_handlers; and when it is written the handler has ended and
\* none of its messages is left in the channel.
C28NextActionV1 ==
  /\ [](version = "V1" =>
          \A i \in 1..Len(chan) :
            chan[i].op = "Response" =>
              chan[i].status = "Empty" /\ Len(chan[i].value) = 4 /\ chan[i].reply = 0)
  /\ [][version = "V1" =>
          \A r \in RequestIds :
            /\ (task[r].pc = "finish" /\ task'[r].pc = "done" /\ conn = "serving") =>
                 /\ Len(chan') = Len(chan) + 1
                 /\ chan'[Len(chan')].rid = r /\ chan'[Len(chan')].op = "Response"
                 /\ GetI32(chan'[Len(chan')].value) = task[r].next_action
            /\ wire'[r].na # wire[r].na =>
                 /\ chan # << >> /\ Head(chan).rid = r /\ Head(chan).op = "Response"
                 /\ chan' = Tail(chan)
                 /\ wire'[r].na = 1
                 /\ wire'[r].act = GetI32(Head(chan).value)
                 /\ wire'[r].hf = wire[r].hf /\ wire'[r].aw = wire[r].aw
                 /\ reply_handlers' = reply_handlers
                 /\ task[r].pc = "done"
                 /\ \A i \in 1..Len(chan') : chan'[i].rid # r]_vars

\* a v1 request whose module made two host calls and returned -129: four
\* HostFunction frames and then NextAction(-129) have been written
C28Witness ==
  /\ version = "V1" /\ conn = "serving"
  /\ \E r \in RequestIds :
       wire[r].hf = 4 /\ wire[r].na = 1 /\ wire[r].act = 0 - 129

\* C29: serialize_list makes of a list L the little-endian i32 count, then one
\* little-endian i32 size for each member, then each member's bytes followed by one
\* 0x00 byte; the output has 4 + sum(len(e) + 5) bytes, and reading it by that
\* format gives L back, also for the empty list and for members that hold 0x00.
\* i32::from_le_bytes
from_le_bytes(b) ==
  b[1] + b[2] * 256 + b[3] * 65536 + (IF b[4] >= 128 THEN b[4] - 256 ELSE b[4]) * 16777216

\* the i-th i32 field of the bytes, fields counted from 0
FieldAt(bytes, i) == from_le_bytes(SubSeq(bytes, 4 * i + 1, 4 * i + 4))

\* where the value of member i begins: after the fields and the members before it,
\* each with its terminator
RECURSIVE ValueStart(_, _)
ValueStart(bytes, i) ==
  IF i = 1 THEN 4 + 4 * FieldAt(bytes, 0) + 1
  ELSE ValueStart(bytes, i - 1) + FieldAt(bytes, i - 1) + 1

\* the list a reader of the format makes of the bytes, or Malformed
Malformed == <<"malformed">>

deserialize_list(bytes) ==
  IF Len(bytes) < 4 THEN Malformed
  ELSE LET count == FieldAt(bytes, 0)
       IN  IF count < 0 \/ Len(bytes) < 4 + 4 * count THEN Malformed
           ELSE IF \E i \in 1..count : FieldAt(bytes, i) < 0 THEN Malformed
           ELSE LET end == IF count = 0 THEN 4
                           ELSE ValueStart(bytes, count) + FieldAt(bytes, count)
                IN  IF Len(bytes) # end THEN Malformed
                    ELSE IF \E i \in 1..count :
                              bytes[ValueStart(bytes, i) + FieldAt(bytes, i)] # 0
                         THEN Malformed
                    ELSE [i \in 1..count |->
                            SubSeq(bytes, ValueStart(bytes, i),
                                   ValueStart(bytes, i) + FieldAt(bytes, i) - 1)]

RECURSIVE SumOfLengths(_)
SumOfLengths(list) ==
  IF list = << >> THEN 0 ELSE Len(Head(list)) + 5 + SumOfLengths(Tail(list))

C29SerializeListRoundTrip ==
  kv.called =>
    /\ Len(kv.bytes) = 4 + SumOfLengths(kv.list)
    /\ Len(kv.bytes) = with_capacity(kv.list)
    /\ FieldAt(kv.bytes, 0) = Len(kv.list)
    /\ \A i \in 1..Len(kv.list) :
         /\ FieldAt(kv.bytes, i) = Len(kv.list[i])
         /\ SubSeq(kv.bytes, ValueStart(kv.bytes, i),
                   ValueStart(kv.bytes, i) + Len(kv.list[i])) = kv.list[i] \o <<0>>
    /\ deserialize_list(kv.bytes) = kv.list
    /\ (kv.list = << >> => kv.bytes = <<0, 0, 0, 0>>)

\* a list of three members has been serialized: one that holds 0x00 bytes, an empty
\* one and the long one
C29Witness ==
  /\ kv.called
  /\ Len(kv.list) = 3
  /\ kv.list[1] = <<0, 7>> /\ kv.list[2] = << >> /\ kv.list[3] = Zeros(LongLen)

\* C31: a handler other than the two body handlers gets from get_stats_row a row
\* made for this call, which no other task holds and the cache does not hold, and
\* the call leaves the cache as it is, whatever is cached under its request id.
C31OtherHandlersFreshRow ==
  [][\A t \in StatsTasks :
       (stats_calls[t].pc = "idle" /\ stats_calls'[t].pc # "idle"
        /\ stats_calls'[t].handler \in {"OnRequestHeaders", "OnResponseHeaders", "OnLog"}) =>
         /\ stats_cache' = stats_cache
         /\ stats_calls'[t].pc = "done"
         /\ stats_calls'[t].row = stats_rows + 1
         /\ stats_rows' = stats_rows + 1
         /\ \A k \in Traceparents : stats_cache'[k].row # stats_calls'[t].row
         /\ \A u \in StatsTasks \ {t} : stats_calls'[u].row # stats_calls'[t].row]_vars

\* an OnLog got a row of its own while a row is cached under its request id and
\* another task holds that row
C31Witness ==
  \E t \in StatsTasks, u \in StatsTasks :
    /\ stats_calls[t].handler = "OnLog" /\ stats_calls[t].pc = "done"
    /\ stats_calls[u].handler = "OnRequestBody" /\ stats_calls[u].pc = "done"
    /\ stats_calls[u].id = stats_calls[t].id
    /\ stats_cache[stats_calls[t].id].row = stats_calls[u].row
    /\ stats_calls[u].row # 0
    /\ stats_calls[t].row > stats_calls[u].row

\* C37: two body chunks with one request id whose calls of get_stats_row have both
\* returned: if neither ends the stream they hold the same row and the cache holds
\* that row; if one of them ends the stream the cache holds no row under the id.
C37ConcurrentChunksAtomic ==
  \A t \in StatsTasks, u \in StatsTasks :
    (/\ t # u
     /\ stats_calls[t].pc = "done" /\ stats_calls[u].pc = "done"
     /\ IsBody(stats_calls[t].handler) /\ IsBody(stats_calls[u].handler)
     /\ stats_calls[t].id = stats_calls[u].id) =>
      /\ (~stats_calls[t].eos /\ ~stats_calls[u].eos) =>
           /\ stats_calls[t].row = stats_calls[u].row
           /\ stats_cache[stats_calls[t].id].row = stats_calls[t].row
      /\ (stats_calls[t].eos /\ ~stats_calls[u].eos) =>
           stats_cache[stats_calls[t].id].row = 0

\* C32: on a v2a connection the read of an Entrypoint or of a Response that carries
\* no RequestId ends the connection: no handler is spawned, no waiting call gets a
\* result and the correlation table is dropped with the loop; and so does the read
\* of a HostError, of a frame that cannot be decoded and of a frame of any other
\* kind. A step that spawns a handler or hands a call its reply is not one of those.
C32V2aNeedsRequestId ==
  [][version = "V2a" =>
       /\ (env'.why \in {"missing", "HostError", "other"} /\ env'.why # env.why) =>
            /\ conn = "serving" /\ conn' = "closed"
            /\ task' = task
            /\ wire' = wire
            /\ \A r \in RequestIds : reply_handlers'[r] = 0
       /\ (\E r \in RequestIds :
             \/ task[r].pc = "idle" /\ task'[r].pc = "start"
             \/ task[r].pc = "wait" /\ task'[r].pc = "run" /\ task'[r].last.arm = "reply") =>
            env'.why = env.why]_vars

\* a v2a connection ended on the Response to a waiting call that came without its
\* RequestId: the call still waits
C32Witness ==
  /\ version = "V2a" /\ conn = "closed" /\ env.why = "missing"
  /\ \E r \in RequestIds : task[r].pc = "wait" /\ wire[r].aw > wire[r].ans

\* C33: on a v2a connection, when the NextAction of a request is written, every
\* HostFunction message its module issued has been written: none is left in the
\* command channel.
C33V2aCommandsBeforeNextAction ==
  [][version = "V2a" =>
       \A r \in RequestIds :
         wire'[r].na = wire[r].na + 1 =>
           \A i \in 1..Len(chan) : chan[i].rid # r]_vars

\* C34: on a v2 connection, when the Response to a host call is read after the
\* call's timeout has returned (its handler no longer waits for it), the Response
\* is dropped and the connection goes on serving the transaction.
C34V2LateResponseSwallowed ==
  [][(/\ version = "V2" /\ conn = "serving"
      /\ sup.pc = "await"
      /\ ~Waiting(sup.rid, sup.call)
      /\ wire'[sup.rid].ans = wire[sup.rid].ans + 1) =>
       /\ conn' = "serving"
       /\ sup'.rid = sup.rid]_vars

\* C35: on a v2 connection, once the handler of the current Entrypoint has ended, the
\* serve loop writes its NextAction (and is ready for the next Entrypoint) or the
\* connection ends, whether the proxy sends another frame or not.
C35V2NeverWedged ==
  (version = "V2" /\ conn = "serving" /\ sup.rid # 0 /\ task[sup.rid].pc = "joinable")
    ~> (conn = "closed" \/ sup.pc = "read")

\* C36: on a v1 or v2a connection every sender in the correlation table belongs to a
\* call that still waits for its reply; there is none for a request whose NextAction
\* has been written; and the table holds no more senders than there are requests
\* in flight.
C36TableHoldsPendingWaiters ==
  (version \in {"V1", "V2a"} /\ conn = "serving") =>
    /\ \A r \in RequestIds :
         reply_handlers[r] # 0 =>
           /\ Waiting(r, reply_handlers[r])
           /\ wire[r].na = 0
    /\ Cardinality({r \in RequestIds : reply_handlers[r] # 0})
         <= Cardinality({r \in RequestIds : InFlight(r)})

\* C38: a proxy_get_property(p) that follows a successful proxy_set_property(p, v) of
\* the same request is not answered from the property cache, whose value for p is
\* older than the set.
C38SetPropertyKeepsCacheConsistent ==
  [][(/\ host.live
      /\ host_last.msg.fn = "SetProperty" /\ host_last.res.tag = "Ok"
      /\ host'.calls = host.calls + 1
      /\ host_last'.msg = GetProperty(host_last.msg.key)) =>
       \A hit \in host'.hits : hit[1] # host_last.msg.key]_vars

\* C39: after a proxy_get_property that went to the proxy and returned an error or
\* the timeout's Ok of no bytes (the proxy of the model answers Ok with bytes only),
\* the property cache holds for the path what it held before.
C39OnlyAnswersAreCached ==
  [][(/\ host.live
      /\ host'.calls = host.calls + 1
      /\ host_last'.msg.fn = "GetProperty"
      /\ host'.armed > host.armed
      /\ host_last'.res = TimeoutResult \/ host_last'.res.tag = "Err") =>
       host'.property_cache[host_last'.msg.key] = host.property_cache[host_last'.msg.key]]_vars

\* C40: a proxy_get_property(request.host) that finds the X-CDN-Real-Host header empty
\* or gets an error for it asks the proxy for request.host, whatever the node's
\* role: it does not return the header's error and neither returns nor caches the
\* bare prefix.
C40RequestHostFallsBack ==
  [][(/\ host.live
      /\ host'.calls = host.calls + 1
      /\ host_last'.msg = GetProperty(REQUEST_HOST)
      /\ host.property_cache[REQUEST_HOST] = None) =>
       /\ host_last'.res.tag = "Ok" => host_last'.res.bytes # <<"shield_">>
       /\ host'.property_cache[REQUEST_HOST] # Some(<<"shield_">>)
       /\ host_last'.res.tag = "Err" =>
            /\ host'.out # << >>
            /\ host'.out[Len(host'.out)] = GetProperty(REQUEST_HOST)]_vars

====
